---------------------------- MODULE Spec2Model ----------------------------
(***************************************************************************)
(* A model of the asynchronous database access layer of IOStorM:           *)
(*   - exception_wrapper      (core/db_access_control/db_exceptions.py)    *)
(*   - _get_pool, DBConnection.get_connection, execute_command_async       *)
(*                            (core/db_access_control/db_connection.py)    *)
(*   - run_sync               (core/async_controller.py)                   *)
(* Strings that the code inspects (exception messages) are sequences of    *)
(* tokens; a token is either the blank " " or a word.                      *)
(***************************************************************************)
EXTENDS Integers, Sequences, FiniteSets, TLC

VARIABLES
    \* ---- one call of exception_wrapper (SpecWrap)
    wrap_pc,        \* "call" before the call, "done" after it
    wrap_in,        \* the arguments: function outcome, exception_type, message_validator
    wrap_out,       \* what the call gave back: a returned value or a raised exception
    \* ---- the connection pool and the commands in flight (Spec, SpecDrain)
    pool_cached,    \* the attribute _get_pool._pool: NoPool or the cached pool
    pools,          \* every momoko.Pool constructed so far, in construction order
    failed_pools,   \* the pools on which a connect() has failed
    acquisitions,   \* the calls of _get_pool made on their own, in call order (SpecPool)
    task,           \* per logical task: one call of execute_command_async
    \* ---- the IOLoop and the calls of run_sync (SpecSync)
    loop_running,   \* the loop is inside start() and was not stopped
    loop_batch,     \* the callbacks of the loop's current iteration, not yet run
    loop_queue,     \* the callbacks added for the next iteration
    futs,           \* every future made so far: its outcome and done-callbacks
    calls,          \* the number of run_sync calls made from outside the loop
    rs,             \* the current run_sync call made from outside the loop
    inner,          \* the run_sync call made by a task inside the running loop
    stopped_by,     \* the callback whose ioloop.stop() ended the last loop run
    \* ---- execute_command in its two modes on one database state (SpecMode)
    db,             \* the command and what the database does with it
    mode,           \* per task: "async" or "sync", the `async` argument of its call
    given,          \* per task: what execute_command gave its caller
    \* ---- one call of a function of the statement builders (SpecPatch, ...)
    fn_pc,          \* "call" before the call, "done" after it
    fn_in,          \* the arguments
    fn_out,         \* what the call gave back
    \* ---- the DDL patcher: registration, then statements compiled (SpecPatch)
    enabling,       \* the call of enable_patches: statements left, if_always, its error
    registry,       \* the patchers whose compile function create_patch registered
    stmt,           \* the DDL statement under construction
    compiled,       \* the texts the compilations of stmt gave, in order
    \* ---- the bootstrap routine on a database (SpecBoot)
    catalog,        \* the schema and the tables that exist in the database
    boot            \* the call of _setup_database: where it is, what it issued

wrapVars == <<wrap_pc, wrap_in, wrap_out>>
execVars == <<pool_cached, pools, failed_pools, task>>
syncVars == <<loop_running, loop_batch, loop_queue, futs, calls, rs, inner, stopped_by>>
modeVars == <<db, mode, given>>
fnVars == <<fn_pc, fn_in, fn_out, enabling, registry, stmt, compiled>>
bootVars == <<catalog, boot>>
poolVars == <<acquisitions>>
vars == <<wrapVars, execVars, syncVars, modeVars, fnVars, bootVars, poolVars>>

-----------------------------------------------------------------------------
(* Bounds of the model *)

MaxMsgLen == 3
MaxRows == 5        \* rows of a result set
MaxBatch == 2       \* configured batch sizes tried: 1..MaxBatch
NumTasks == 2       \* logical tasks sharing the pool
MaxCalls == 3       \* successive run_sync calls
MaxKeys == 3        \* keys of a mapping, columns of a list
MaxTextLen == 4     \* tokens of the text the unpatched DDL compiler gives
MaxRuns == 2        \* successive runs of the bootstrap

-----------------------------------------------------------------------------
(* Exceptions and messages *)

\* the exception classes that occur, each with its direct base class
ExcParent ==
    [ProgrammingError   |-> "DatabaseError",
     OperationalError   |-> "DatabaseError",
     DatabaseError      |-> "Exception",
     IndexError         |-> "Exception",
     RuntimeError       |-> "Exception",
     MissingArgsException |-> "Exception",
     ValueError         |-> "Exception",
     Exception          |-> "Exception"]

ExcTypes == DOMAIN ExcParent

RECURSIVE IsSubclass(_, _)
IsSubclass(T, U) ==
    IF T = U THEN TRUE
    ELSE IF ExcParent[T] = T THEN FALSE
    ELSE IsSubclass(ExcParent[T], U)

\* `except exception_type as e` catches e iff isinstance(e, exception_type)
IsInstance(e, exception_type) == IsSubclass(e.type, exception_type)

Blank == " "
NoResultsToFetch == <<"no results to fetch">>
Words == {"no results to fetch", "disk full"}
Tokens == Words \cup {Blank}

RECURSIVE SeqsUpTo(_, _)
SeqsUpTo(S, n) ==
    IF n = 0 THEN {<<>>}
    ELSE LET shorter == SeqsUpTo(S, n - 1)
         IN  shorter \cup {Append(s, x) : s \in {q \in shorter : Len(q) = n - 1}, x \in S}

Messages == SeqsUpTo(Tokens, MaxMsgLen)

\* str.strip(): leading and trailing blanks removed
RECURSIVE lstrip(_)
lstrip(s) == IF s # <<>> /\ Head(s) = Blank THEN lstrip(Tail(s)) ELSE s

RECURSIVE rstrip(_)
rstrip(s) ==
    IF s # <<>> /\ s[Len(s)] = Blank THEN rstrip(SubSeq(s, 1, Len(s) - 1)) ELSE s

strip(s) == rstrip(lstrip(s))

Exc(T, a) == [type |-> T, args |-> a]

\* what `e.args[0]` raises on an empty args tuple
TupleIndexError == Exc("IndexError", << <<"tuple index out of range">> >>)

NoExc == Exc("", <<>>)

\* the two ways a call ends
Return(v) == [kind |-> "return", value |-> v, exc |-> NoExc]
Raise(e)  == [kind |-> "raise", value |-> <<>>, exc |-> e]

\* message validators (the lambdas passed as message_validator)
NeverValid == [kind |-> "never", msg |-> <<>>]
EqualTo(m) == [kind |-> "eq", msg |-> m]
\* lambda s: s.startswith(prefix) and s.endswith(suffix)
StartsEnds(prefix, suffix) == [kind |-> "affix", msg |-> <<prefix, suffix>>]

Validate(message_validator, s) ==
    CASE message_validator.kind = "never" -> FALSE
      [] message_validator.kind = "eq"    -> s = message_validator.msg
      [] message_validator.kind = "affix" ->
            /\ s # <<>>
            /\ Head(s) = message_validator.msg[1]
            /\ s[Len(s)] = message_validator.msg[2]

-----------------------------------------------------------------------------
(* exception_wrapper *)

\* `outcome` is how `yield function(**kwargs)` ended.
exception_wrapper_inverted(outcome, exception_type, message_validator) ==
    IF outcome.kind = "return" THEN Return(outcome.value)
    ELSE IF ~IsInstance(outcome.exc, exception_type) THEN Raise(outcome.exc)
    ELSE IF Len(outcome.exc.args) = 0 THEN Raise(TupleIndexError)
    ELSE IF Validate(message_validator, strip(outcome.exc.args[1]))
         THEN Raise(outcome.exc)
         ELSE Return(<<>>)

exception_wrapper(outcome, exception_type, message_validator) ==
    IF outcome.kind = "return" THEN Return(outcome.value)
    ELSE IF ~IsInstance(outcome.exc, exception_type) THEN Raise(outcome.exc)
    ELSE IF Len(outcome.exc.args) = 0 THEN Raise(TupleIndexError)
    ELSE LET s == strip(outcome.exc.args[1])
         IN  IF ~Validate(message_validator, s)
             THEN Raise(outcome.exc)
             ELSE Return(<<>>)

\* the inputs of one call
WrapValues == {<<>>, <<1>>, <<1, 2>>}
WrapRaised == {"ProgrammingError", "OperationalError", "DatabaseError", "IndexError"}
WrapCaught == {"ProgrammingError", "DatabaseError", "Exception"}
WrapArgs == {<<>>} \cup {<<m>> : m \in Messages}
WrapOutcomes ==
    {Return(v) : v \in WrapValues} \cup {Raise(Exc(T, a)) : T \in WrapRaised, a \in WrapArgs}
WrapValidators == {NeverValid, EqualTo(NoResultsToFetch), EqualTo(<<"disk full">>)}

WrapStart ==
    /\ wrap_pc = "call"
    /\ wrap_in \in [outcome : WrapOutcomes,
                    exception_type : WrapCaught,
                    message_validator : WrapValidators]
    /\ wrap_out = Return(<<>>)

WrapCall ==
    /\ wrap_pc = "call"
    /\ wrap_pc' = "done"
    /\ wrap_out' = exception_wrapper(wrap_in.outcome, wrap_in.exception_type,
                                     wrap_in.message_validator)
    /\ UNCHANGED wrap_in

-----------------------------------------------------------------------------
(* The connection pool: _get_pool and DBConnection.get_connection *)

NoPool == 0
NoLoop == "none"
Loops == {"loop_a", "loop_b"}

\* momoko.Pool(dsn=..., size=1, ioloop=io_loop, raise_connect_errors=True)
NewPool(io_loop) == [ioloop |-> io_loop, size |-> 1, connects |-> 0]

\* `io_loop or IOLoop.current()`
LoopOrCurrent(io_loop, current) == IF io_loop = NoLoop THEN current ELSE io_loop

\* The body of _get_pool has no yield: it runs to its return without suspension.
\* Gives the pool returned, and the cache and the constructed pools afterwards.
_get_pool_uncached(cached, ps, io_loop, current) ==
    [pool   |-> Len(ps) + 1,
     cached |-> cached,
     pools  |-> Append(ps, NewPool(LoopOrCurrent(io_loop, current)))]

_get_pool_always_new(cached, ps, io_loop, current) ==
    [pool   |-> Len(ps) + 1,
     cached |-> Len(ps) + 1,
     pools  |-> Append(ps, NewPool(LoopOrCurrent(io_loop, current)))]

_get_pool_keeps_loop(cached, ps, io_loop, current) ==
    LET loop == LoopOrCurrent(io_loop, current)
    IN  IF cached = NoPool
        THEN [pool   |-> Len(ps) + 1,
              cached |-> Len(ps) + 1,
              pools  |-> Append(ps, NewPool(loop))]
        ELSE [pool   |-> cached,
              cached |-> cached,
              pools  |-> ps]

_get_pool(cached, ps, io_loop, current) ==
    LET loop == LoopOrCurrent(io_loop, current)
    IN  IF cached = NoPool
        THEN [pool   |-> Len(ps) + 1,
              cached |-> Len(ps) + 1,
              pools  |-> Append(ps, NewPool(loop))]
        ELSE [pool   |-> cached,
              cached |-> cached,
              pools  |-> [ps EXCEPT ![cached].ioloop = loop]]

-----------------------------------------------------------------------------
(* Values a row converter gives, and their truth value in Python *)

Value(tag, n, row) == [tag |-> tag, n |-> n, row |-> row]
NoRow == <<0, 0>>
NoValue == Value("unset", 0, NoRow)

\* `not ret_value` is the negation of this
Truthy(v) ==
    CASE v.tag = "none"  -> FALSE          \* None
      [] v.tag = "int"   -> v.n # 0        \* 0 is falsy
      [] v.tag = "str"   -> v.n # 0        \* n characters: '' is falsy
      [] v.tag = "dict"  -> v.n # 0        \* n keys: {} is falsy
      [] OTHER           -> TRUE

\* What the row converter makes of a row, by the kind of the row:
\* list_mapper with the default converter gives the mapping column -> value.
RowKinds == {"mapping", "none", "zero"}

row_parser(kind, row) ==
    CASE kind = "mapping" -> Value("dict", 1, row)
      [] kind = "none"    -> Value("none", 0, row)
      [] kind = "zero"    -> Value("int", 0, row)
      [] kind = "empty"   -> Value("str", 0, row)
      [] kind = "no_keys" -> Value("dict", 0, row)

-----------------------------------------------------------------------------
(* The driver: what the statements of a command do *)

\* A command: whether its statement has a result set, the kinds of the rows of
\* that result set in cursor order, and whether its row converter gives futures.
Command(has_results, rows, async_parser) ==
    [has_results |-> has_results, rows |-> rows, async_parser |-> async_parser]
NoCommand == Command(FALSE, <<>>, FALSE)

ConnectErrors   == {Exc("OperationalError", << <<"could not connect">> >>)}
ExecuteErrors   == {Exc("ProgrammingError", << <<"relation already exists">> >>)}
FetchErrors     == {Exc("OperationalError", << <<"connection lost">> >>),
                    Exc("ProgrammingError", << <<"disk full">> >>)}
ConverterErrors == {Exc("ValueError", << <<"bad row">> >>)}

Min(a, b) == IF a < b THEN a ELSE b

\* the rows come from one cursor that the calls share
fetchmany_shared_cursor(t, command, pos, size) ==
    IF ~command.has_results
    THEN Raise(Exc("ProgrammingError", <<NoResultsToFetch>>))
    ELSE Return([i \in 1..(Min(pos + size, Len(command.rows)) - pos) |-> <<1, pos + i>>])

\* cursor.fetchmany(size) of the cursor of task t, `pos` rows already fetched:
\* the next rows in cursor order, at most `size` of them; a statement without
\* a result set makes it raise ProgrammingError('no results to fetch').
fetchmany(t, command, pos, size) ==
    IF ~command.has_results
    THEN Raise(Exc("ProgrammingError", <<NoResultsToFetch>>))
    ELSE Return([i \in 1..(Min(pos + size, Len(command.rows)) - pos) |-> <<t, pos + i>>])

-----------------------------------------------------------------------------
(* DBConnection.execute_command_async, one logical task per call *)

Tasks == 1..NumTasks

Pending == [kind |-> "pending", value |-> <<>>, exc |-> NoExc]

IdleTask ==
    [pc |-> "idle",                 \* where the coroutine is suspended
     command |-> NoCommand,
     batch_size |-> 0,              \* db_config.batch_size
     pool |-> NoPool,               \* the pool get_connection obtained
     acquired |-> "none",           \* whether _get_pool "created" or "reused" the pool
     saw_failure |-> FALSE,         \* a connect had failed before this acquisition
     pos |-> 0,                     \* rows fetched from the cursor
     fetches |-> 0,                 \* fetchmany calls
     batches |-> <<>>,              \* sizes of the batches fetchmany returned
     results |-> <<>>,              \* rows of the current batch not yet converted
     awaited |-> NoValue,           \* the converter's future being awaited
     ret_values |-> <<>>,
     raised |-> NoExc,              \* the exception a step of this call raised,
     raised_at |-> "none",          \* and the step that raised it
     handle |-> Pending]            \* the future the caller holds

\* `ret_values.append(ret_value)`
Store_front(ret_values, ret_value) == <<ret_value>> \o ret_values
Store(ret_values, ret_value) == Append(ret_values, ret_value)

\* lines 200-205: a falsy value is not stored
Collect_all(ret_values, ret_value) == Store(ret_values, ret_value)

Collect(ret_values, ret_value) ==
    IF ~Truthy(ret_value) THEN ret_values ELSE Store(ret_values, ret_value)

\* a step of the call raised e (a record of it; the code keeps none)
Raised(tk, e, step) == [tk EXCEPT !.raised = e, !.raised_at = step]

\* an exception leaves the coroutine: it is set on the handle, which gets no value
Fail_partial(tk, e) == [tk EXCEPT !.pc = "done", !.handle = Return(tk.ret_values)]
Fail(tk, e) == [tk EXCEPT !.pc = "failed", !.handle = Raise(e)]

\* lines 160-165: the call runs up to the first suspension, pool.connect();
\* get_connection has obtained the pool from _get_pool.
Submit(t, Cmds, LoopArgs, Sizes) ==
    /\ task[t].pc = "idle"
    /\ \E command \in Cmds, io_loop \in LoopArgs, current \in Loops, size \in Sizes :
         LET got == _get_pool(pool_cached, pools, io_loop, current)
             ps  == [got.pools EXCEPT ![got.pool].connects = @ + 1]
         IN  /\ pool_cached' = got.cached
             /\ pools' = ps
             /\ task' = [task EXCEPT ![t] =
                    [@ EXCEPT !.pc = "connecting",
                              !.command = command,
                              !.batch_size = size,
                              !.pool = got.pool,
                              !.acquired = IF Len(got.pools) > Len(pools)
                                           THEN "created" ELSE "reused",
                              !.saw_failure = failed_pools # {}]]
    /\ UNCHANGED failed_pools

\* A call of _get_pool(io_loop) on its own (db_utils.get_pool has the same
\* body): it runs to its return; the call and the pool it returned are noted.
Acquire ==
    /\ Len(acquisitions) < MaxCalls
    /\ \E io_loop \in Loops \cup {NoLoop}, current \in Loops :
         LET got == _get_pool(pool_cached, pools, io_loop, current)
         IN  /\ pool_cached' = got.cached
             /\ pools' = got.pools
             /\ acquisitions' = Append(acquisitions,
                    [io_loop |-> io_loop, current |-> current, pool |-> got.pool])
    /\ UNCHANGED <<failed_pools, task>>

\* line 66 resumes: pool.connect() resolved, with the connection or with the
\* connect error (raise_connect_errors=True); then lines 168-176 issue the statement.
Connect(t) ==
    /\ task[t].pc = "connecting"
    /\ \/ /\ task' = [task EXCEPT ![t].pc = "executing"]
          /\ UNCHANGED failed_pools
       \/ \E e \in ConnectErrors :
            /\ task' = [task EXCEPT ![t] = Fail(Raised(@, e, "connect"), e)]
            /\ failed_pools' = failed_pools \cup {task[t].pool}
    /\ UNCHANGED <<pool_cached, pools>>

\* line 176 resumes: conn.execute(command) resolved with the cursor or an error
ExecuteWith(t, Errors) ==
    /\ task[t].pc = "executing"
    /\ \/ task' = [task EXCEPT ![t].pc = "fetching"]
       \/ \E e \in Errors :
            task' = [task EXCEPT ![t] = Fail(Raised(@, e, "execute"), e)]
    /\ UNCHANGED <<pool_cached, pools, failed_pools>>

Execute(t) == ExecuteWith(t, ExecuteErrors)

\* lines 178-188: one batch fetch through exception_wrapper, then the test
\* `if not results: break` and, past the loop, `return ret_values`.
FetchWith_until_short(t, fetched) ==
    LET tk == task[t]
        results == exception_wrapper(fetched, "ProgrammingError",
                                     EqualTo(NoResultsToFetch))
        seen == [tk EXCEPT !.fetches = @ + 1,
                           !.raised = fetched.exc,
                           !.raised_at = IF fetched.kind = "raise" THEN "fetch" ELSE @,
                           !.pos = @ + Len(fetched.value),
                           !.batches = IF fetched.kind = "return"
                                       THEN Append(@, Len(fetched.value)) ELSE @]
    IN  task' = [task EXCEPT ![t] =
            IF results.kind = "raise" THEN Fail(seen, results.exc)
            ELSE IF Len(results.value) < tk.batch_size
                 THEN [seen EXCEPT !.pc = "done", !.handle = Return(seen.ret_values)]
                 ELSE [seen EXCEPT !.pc = "parsing", !.results = results.value]]

FetchWith(t, fetched) ==
    LET tk == task[t]
        results == exception_wrapper(fetched, "ProgrammingError",
                                     EqualTo(NoResultsToFetch))
        seen == [tk EXCEPT !.fetches = @ + 1,
                           !.raised = fetched.exc,
                           !.raised_at = IF fetched.kind = "raise" THEN "fetch" ELSE @,
                           !.pos = @ + Len(fetched.value),
                           !.batches = IF fetched.kind = "return"
                                       THEN Append(@, Len(fetched.value)) ELSE @]
    IN  task' = [task EXCEPT ![t] =
            IF results.kind = "raise" THEN Fail(seen, results.exc)
            ELSE IF results.value = <<>>
                 THEN [seen EXCEPT !.pc = "done", !.handle = Return(seen.ret_values)]
                 ELSE [seen EXCEPT !.pc = "parsing", !.results = results.value]]

Fetch(t) ==
    /\ task[t].pc = "fetching"
    /\ \/ FetchWith(t, fetchmany(t, task[t].command, task[t].pos, task[t].batch_size))
       \/ /\ task[t].command.has_results
          /\ \E e \in FetchErrors : FetchWith(t, Raise(e))
    /\ UNCHANGED <<pool_cached, pools, failed_pools>>

\* the end of one turn of `for result in results`
NextRow(tk, ret_value) ==
    [tk EXCEPT !.ret_values = Collect(@, ret_value),
               !.awaited = NoValue,
               !.results = Tail(@),
               !.pc = IF Tail(tk.results) = <<>> THEN "fetching" ELSE "parsing"]

\* lines 190-205 for one row: the converter is called; a future it gives is awaited
ParseRow(t) ==
    /\ task[t].pc = "parsing"
    /\ LET tk == task[t]
           row == Head(tk.results)
           ret_value == row_parser(tk.command.rows[row[2]], row)
       IN  \/ /\ ~tk.command.async_parser
              /\ task' = [task EXCEPT ![t] = NextRow(tk, ret_value)]
           \/ /\ tk.command.async_parser
              /\ task' = [task EXCEPT ![t] =
                              [tk EXCEPT !.pc = "awaiting_row", !.awaited = ret_value]]
           \/ \E e \in ConverterErrors :
                task' = [task EXCEPT ![t] = Fail(Raised(tk, e, "converter"), e)]
    /\ UNCHANGED <<pool_cached, pools, failed_pools>>

\* line 198 resumes: the converter's future resolved, with its value or its error
AwaitRow(t) ==
    /\ task[t].pc = "awaiting_row"
    /\ \/ task' = [task EXCEPT ![t] = NextRow(@, @.awaited)]
       \/ \E e \in ConverterErrors :
            task' = [task EXCEPT ![t] = Fail(Raised(@, e, "converter"), e)]
    /\ UNCHANGED <<pool_cached, pools, failed_pools>>

-----------------------------------------------------------------------------
(* The Sync Bridge: run_sync and the IOLoop it drives *)

\* MissingArgsException.__init__(*args): one argument is put into the message
MissingArgsException_raw(args) == Exc("MissingArgsException", args)
MissingArgsException(args) ==
    IF Len(args) # 1 THEN Exc("MissingArgsException", args)
    ELSE Exc("MissingArgsException", << <<"Missing function arguments: ">> \o args[1] >>)

CallableOrFuture == <<"Callable or Future">>

\* IOLoop.start() on a loop that is already running
AlreadyRunning == Exc("RuntimeError", << <<"IOLoop is already running">> >>)
\* Future.result() on a future that is not done
NotDone == Exc("Exception", << <<"DummyFuture does not support blocking for results">> >>)

\* A future: its outcome, the callbacks to run when it is done, and what
\* resolves it: "io" an I/O event, with a value or an error; "reenter" an I/O
\* event after which the task that owns it calls run_sync inside the loop.
Future(kind, outcome) == [kind |-> kind, outcome |-> outcome, cbs |-> <<>>]
NoFuture == Future("none", Pending)
NoFunc == Future("none", Pending)

IOResults == {Return(<<"value">>), Raise(Exc("OperationalError", << <<"connection lost">> >>))}

\* the futures a caller can pass, and the futures the callables passed make
GivenFutures == {Future("io", o) : o \in IOResults \cup {Pending}}
Callables == GivenFutures \cup {Future("reenter", Pending)}

\* `lambda _: ioloop.stop()`, added by the run_sync call `call` to its handle
StopCallback(call, h) == [kind |-> "stop", call |-> call, handle |-> h]
NoCallback == StopCallback(0, 0)
InnerCall == 0 - 1

\* `not func and not future`
ArgsMissing(func, future) == func = NoFunc /\ future = NoFuture

\* ioloop.add_future(future, callback): the callback runs on the loop once the
\* future is done; for a future that is done already, in the next iteration.
add_future_at_once(fs, queue, h, callback) ==
    [futs |-> fs, queue |-> Append(queue, callback)]
add_future(fs, queue, h, callback) ==
    IF fs[h].outcome.kind = "pending"
    THEN [futs |-> [fs EXCEPT ![h].cbs = Append(@, callback)], queue |-> queue]
    ELSE [futs |-> fs, queue |-> Append(queue, callback)]

\* ioloop.start(): refused with RuntimeError when the loop is running
ioloop_start_nested(running) == Pending
ioloop_start(running) == IF running THEN Raise(AlreadyRunning) ELSE Pending

\* future.result()
result(f) == IF f.outcome.kind = "pending" THEN Raise(NotDone) ELSE f.outcome

\* run_sync, lines 43-49, for the call `call`: the arguments are tested, the
\* handle is `future or func(...)`, the stop callback is added to it and the
\* loop is started. `out` is Pending when the call is now inside start().
run_sync(call, func, future, fs, queue, running) ==
    IF ArgsMissing(func, future)
    THEN [out |-> Raise(MissingArgsException(<<CallableOrFuture>>)),
          futs |-> fs, queue |-> queue, handle |-> 0,
          invoked |-> FALSE, registered |-> FALSE, started |-> FALSE]
    ELSE LET h == Len(fs) + 1
             made == IF future # NoFuture THEN future ELSE func
             reg == add_future(Append(fs, made), queue, h, StopCallback(call, h))
             st == ioloop_start(running)
         IN  [out |-> st, futs |-> reg.futs, queue |-> reg.queue, handle |-> h,
              invoked |-> (future = NoFuture), registered |-> TRUE,
              started |-> (st.kind = "pending")]

NoCall ==
    [pc |-> "idle", func |-> NoFunc, future |-> NoFuture, handle |-> 0,
     invoked |-> FALSE, registered |-> FALSE, started |-> FALSE, out |-> Pending]

NoInner == [made |-> FALSE, during |-> 0, task |-> 0, handle |-> 0, out |-> Pending]

SyncIdle ==
    /\ loop_running = FALSE
    /\ loop_batch = <<>>
    /\ loop_queue = <<>>
    /\ futs = <<>>
    /\ calls = 0
    /\ rs = NoCall
    /\ inner = NoInner
    /\ stopped_by = NoCallback

\* code outside the loop calls run_sync(func, future)
CallWith(Funcs, Futures) ==
    /\ rs.pc \in {"idle", "returned", "raised"}
    /\ calls < MaxCalls
    /\ \E func \in Funcs, future \in Futures :
         LET en == run_sync(calls + 1, func, future, futs, loop_queue, loop_running)
         IN  /\ rs' = [pc |-> IF en.out.kind = "raise" THEN "raised" ELSE "in_loop",
                       func |-> func, future |-> future, handle |-> en.handle,
                       invoked |-> en.invoked, registered |-> en.registered,
                       started |-> en.started, out |-> en.out]
             /\ futs' = en.futs
             /\ loop_queue' = en.queue
             /\ loop_running' = (loop_running \/ en.started)
    /\ calls' = calls + 1
    /\ stopped_by' = NoCallback
    /\ UNCHANGED <<loop_batch, inner>>

Call == CallWith(Callables \cup {NoFunc}, GivenFutures \cup {NoFuture})

\* the loop begins an iteration: it takes the callbacks added so far
LoopTurn ==
    /\ rs.pc = "in_loop"
    /\ loop_running
    /\ loop_batch = <<>>
    /\ loop_queue # <<>>
    /\ loop_batch' = loop_queue
    /\ loop_queue' = <<>>
    /\ UNCHANGED <<loop_running, futs, calls, rs, inner, stopped_by>>

\* the loop runs one callback of its iteration: ioloop.stop()
RunCallback ==
    /\ rs.pc = "in_loop"
    /\ loop_batch # <<>>
    /\ loop_batch' = Tail(loop_batch)
    /\ loop_running' = FALSE
    /\ stopped_by' = IF loop_running THEN Head(loop_batch) ELSE stopped_by
    /\ UNCHANGED <<loop_queue, futs, calls, rs, inner>>

\* the future h is done with outcome o: its callbacks are added to the loop
Resolve(fs, queue, h, o) ==
    [futs |-> [fs EXCEPT ![h].outcome = o, ![h].cbs = <<>>],
     queue |-> queue \o fs[h].cbs]

\* the loop polls: the I/O a pending future waits for completes
IOEvent(h) ==
    /\ rs.pc = "in_loop"
    /\ loop_running
    /\ loop_batch = <<>>
    /\ futs[h].outcome.kind = "pending"
    /\ \E r \in IOResults :
         IF futs[h].kind = "reenter" /\ r.kind = "return"
         THEN \* the task goes on inside the loop and calls run_sync(func);
              \* it does not catch what run_sync raises
              \E func \in GivenFutures :
                LET en == run_sync(InnerCall, func, NoFuture, futs, loop_queue, loop_running)
                    out == IF en.out.kind = "raise" THEN en.out ELSE result(en.futs[en.handle])
                    done == Resolve(en.futs, en.queue, h,
                                    IF out.kind = "raise" THEN out ELSE r)
                IN  /\ inner' = [made |-> TRUE, during |-> calls, task |-> h,
                                 handle |-> en.handle, out |-> out]
                    /\ futs' = done.futs
                    /\ loop_queue' = done.queue
         ELSE LET done == Resolve(futs, loop_queue, h, r)
              IN  /\ futs' = done.futs
                  /\ loop_queue' = done.queue
                  /\ UNCHANGED inner
    /\ UNCHANGED <<loop_running, loop_batch, calls, rs, stopped_by>>

\* the loop was stopped and its iteration is over: start() returns and
\* line 51 gives `future.result()`
Finish ==
    /\ rs.pc = "in_loop"
    /\ ~loop_running
    /\ loop_batch = <<>>
    /\ LET out == result(futs[rs.handle])
       IN  rs' = [rs EXCEPT !.pc = IF out.kind = "raise" THEN "raised" ELSE "returned",
                            !.out = out]
    /\ UNCHANGED <<loop_running, loop_batch, loop_queue, futs, calls, inner, stopped_by>>

SyncNext ==
    \/ Call /\ UNCHANGED <<wrapVars, execVars, modeVars, fnVars, bootVars, poolVars>>
    \/ LoopTurn /\ UNCHANGED <<wrapVars, execVars, modeVars, fnVars, bootVars, poolVars>>
    \/ RunCallback /\ UNCHANGED <<wrapVars, execVars, modeVars, fnVars, bootVars, poolVars>>
    \/ \E h \in 1..Len(futs) : IOEvent(h) /\ UNCHANGED <<wrapVars, execVars, modeVars, fnVars, bootVars, poolVars>>
    \/ Finish /\ UNCHANGED <<wrapVars, execVars, modeVars, fnVars, bootVars, poolVars>>

-----------------------------------------------------------------------------
(* DBConnection.execute_command: one command in its two modes *)

\* A database state: the command, the configured batch size, and what the
\* driver and the converter do with the command: the error of connect and of
\* execute (NoExc: none), the error of the `at`-th fetch, the error of the
\* converter on the `at`-th row, raised by its call or by the future it gave.
Database(command, batch_size, connect, execute, fetch, conv) ==
    [command |-> command, batch_size |-> batch_size, connect |-> connect,
     execute |-> execute, fetch |-> fetch, conv |-> conv]

NoFault == [at |-> 0, exc |-> NoExc, stage |-> "call"]
NoDatabase == Database(NoCommand, 0, NoExc, NoExc, NoFault, NoFault)

ModeCommands ==
    {Command(TRUE, rows, a) : rows \in SeqsUpTo({"mapping", "none"}, MaxBatch),
                              a \in BOOLEAN}
        \cup {Command(FALSE, <<>>, FALSE)}

Faults(n, Errors, Stages) ==
    {NoFault} \cup {[at |-> k, exc |-> e, stage |-> st] :
                        k \in 1..n, e \in Errors, st \in Stages}

Databases ==
    {Database(c, b, ce, ee, f, cv) :
        c \in ModeCommands, b \in 1..MaxBatch,
        ce \in ConnectErrors \cup {NoExc}, ee \in ExecuteErrors \cup {NoExc},
        f \in Faults(MaxBatch, {Exc("OperationalError", << <<"connection lost">> >>)}, {"call"}),
        cv \in Faults(MaxBatch, ConverterErrors, {"call", "await"})}

\* IOLoop.instance(), the loop run_sync drives; both calls are given this loop
InstanceLoop == "loop_a"

\* the two calls compared: each is made in either mode
ModePair == {1, 2}

\* what execute_command gave its caller: nothing yet (the call has not
\* returned), the handle, or the outcome of result() on the handle
Nothing == [as |-> "nothing", outcome |-> Pending]

\* lines 122-128, async=True: execute_command_async is called and the future
\* it gives is returned as it is
ExecAsync(t) ==
    /\ Submit(t, {db.command}, {InstanceLoop}, {db.batch_size})
    /\ given' = [given EXCEPT ![t] = [as |-> "handle", outcome |-> task'[t].handle]]
    /\ UNCHANGED syncVars

\* lines 129-136, async=False: run_sync(func=execute_command_async, ...) calls
\* execute_command_async, adds the stop callback to its future and starts the loop
ExecSync(t) ==
    /\ Submit(t, {db.command}, {InstanceLoop}, {db.batch_size})
    /\ CallWith({Future("task", Pending)}, {NoFuture})
    /\ UNCHANGED given

\* the call of task t with the flag `async`
execute_command_no_bridge(t, async) ==
    /\ mode' = [mode EXCEPT ![t] = IF async THEN "async" ELSE "sync"]
    /\ ExecAsync(t)
    /\ UNCHANGED db

execute_command(t, async) ==
    /\ mode' = [mode EXCEPT ![t] = IF async THEN "async" ELSE "sync"]
    /\ IF async THEN ExecAsync(t) ELSE ExecSync(t)
    /\ UNCHANGED db

\* task t is the one whose future the run_sync call in progress holds
Driven(t) == mode[t] = "sync" /\ given[t].as = "nothing"

\* the database state decides the outcome of a step: the step `step` of task
\* t fails with exc when `when` holds and exc is an error, and does not fail otherwise
Happens(t, step, exc, when) ==
    IF when /\ exc # NoExc
    THEN /\ task'[t].pc = "failed"
         /\ task'[t].raised = exc
         /\ task'[t].raised_at = step
    ELSE task'[t].pc # "failed"

\* a step of task t, run by the loop between two iterations; when the step
\* ends the coroutine its future is done and the callbacks added to it are scheduled
OnLoop(t, step) ==
    /\ rs.pc = "in_loop"
    /\ loop_running
    /\ loop_batch = <<>>
    /\ step
    /\ IF Driven(t) /\ task'[t].handle # Pending
       THEN LET done == Resolve(futs, loop_queue, rs.handle, task'[t].handle)
            IN  futs' = done.futs /\ loop_queue' = done.queue
       ELSE UNCHANGED <<futs, loop_queue>>
    /\ UNCHANGED <<loop_running, loop_batch, calls, rs, inner, stopped_by>>
    /\ UNCHANGED <<wrapVars, modeVars, fnVars, bootVars, poolVars>>

ModeConnect(t) == OnLoop(t, Connect(t) /\ Happens(t, "connect", db.connect, TRUE))

ModeExecute(t) == OnLoop(t, Execute(t) /\ Happens(t, "execute", db.execute, TRUE))

ModeFetch(t) ==
    OnLoop(t, Fetch(t) /\ Happens(t, "fetch", db.fetch.exc,
                                  /\ task[t].command.has_results
                                  /\ db.fetch.at = task[t].fetches + 1))

ModeParseRow(t) ==
    OnLoop(t, ParseRow(t) /\ Happens(t, "converter", db.conv.exc,
                                     /\ db.conv.at = Head(task[t].results)[2]
                                     /\ \/ db.conv.stage = "call"
                                        \/ ~task[t].command.async_parser))

ModeAwaitRow(t) ==
    OnLoop(t, AwaitRow(t) /\ Happens(t, "converter", db.conv.exc,
                                     /\ db.conv.at = task[t].awaited.row[2]
                                     /\ db.conv.stage = "await"))

\* run_sync line 51 in the synchronous call: execute_command returns what
\* run_sync returns, or raises what it raises
ModeFinish ==
    /\ Finish
    /\ given' = [t \in Tasks |->
                    IF Driven(t) THEN [as |-> "result", outcome |-> rs'.out]
                    ELSE given[t]]
    /\ UNCHANGED <<db, mode, wrapVars, execVars, fnVars, bootVars, poolVars>>


-----------------------------------------------------------------------------
(* The Idempotency Patcher: ddl_utils/exist_condition_patcher.py *)

\* The name of a statement type (`__name__`) is a sequence of chunks: words
\* that start with a capital letter, and runs of other characters ("create_").
\* A type without a name has the empty sequence ('' in the code).
CreateTable  == <<"Create", "Table">>
CreateIndex  == <<"Create", "Index">>
CreateSchema == <<"Create", "Schema">>
DropTable    == <<"Drop", "Table">>
DropIndex    == <<"Drop", "Index">>
DropSchema   == <<"Drop", "Schema">>

ELEMENTS_TO_PATCH ==
    {CreateTable, CreateIndex, CreateSchema, DropTable, DropIndex, DropSchema}

\* statement types that are not of the default set
AlterTable == <<"Alter", "Table">>
Unnamed == <<>>
OtherElements == {AlterTable, Unnamed, <<"create_", "View">>}

CapitalWords == {"Create", "Drop", "Alter", "Table", "Index", "Schema", "View"}

upper ==
    [w \in CapitalWords |->
        CASE w = "Create" -> "CREATE" [] w = "Drop" -> "DROP" [] w = "Alter" -> "ALTER"
          [] w = "Table" -> "TABLE" [] w = "Index" -> "INDEX" [] w = "Schema" -> "SCHEMA"
          [] w = "View" -> "VIEW"]

lower ==
    [w \in CapitalWords |->
        CASE w = "Create" -> "create" [] w = "Drop" -> "drop" [] w = "Alter" -> "alter"
          [] w = "Table" -> "table" [] w = "Index" -> "index" [] w = "Schema" -> "schema"
          [] w = "View" -> "view"]

\* class ConditionVariants
if_not_exists == <<"IF", "NOT", "EXISTS">>
if_exists == <<"IF", "EXISTS">>
NoVariant == <<>>

\* re.findall('[A-Z][a-z]*', input_text): the capitalised words, in order
RECURSIVE split_camel_case(_)
split_camel_case(input_text) ==
    IF input_text = <<>> THEN <<>>
    ELSE IF Head(input_text) \in CapitalWords
         THEN <<Head(input_text)>> \o split_camel_case(Tail(input_text))
         ELSE split_camel_case(Tail(input_text))

\* `'Drop' in element_name`
InName(word, element_name) == \E i \in 1..Len(element_name) : element_name[i] = word

MapSeq(f, parts) == [i \in 1..Len(parts) |-> f[parts[i]]]

IsPrefix(pat, text) == Len(pat) <= Len(text) /\ SubSeq(text, 1, Len(pat)) = pat

\* the `count` that line 69 passes to re.sub: the value of the flag re.S
re_S == 16

\* re.sub(pattern, repl, string, count): the leftmost non-overlapping
\* occurrences of the pattern are replaced, at most `count` of them
RECURSIVE re_sub(_, _, _, _)
re_sub(pattern, repl, string, count) ==
    IF string = <<>> \/ count = 0 \/ pattern = <<>> THEN string
    ELSE IF IsPrefix(pattern, string)
         THEN repl \o re_sub(pattern, repl, SubSeq(string, Len(pattern) + 1, Len(string)), count - 1)
         ELSE <<Head(string)>> \o re_sub(pattern, repl, Tail(string), count)

\* ExistConditionPatcher.inject_condition
inject_condition_after(patcher, command) ==
    re_sub(patcher.regex, patcher.variant \o patcher.regex, command, re_S)
inject_condition(patcher, command) ==
    re_sub(patcher.regex, patcher.condition, command, re_S)

OperationUnknown == Exc("Exception", << <<"Operation type could not be determined.">> >>)
\* `self.variant` read on line 116 when no branch of lines 109-114 has set it
NoVariantAttribute ==
    Exc("AttributeError", << <<"'ExistConditionPatcher' object has no attribute 'variant'">> >>)

\* ExistConditionPatcher.__init__: the patcher, or the exception it raises.
\* Arguments left out are NoVariant and <<>> (None and '' in the code).
ExistConditionPatcher_lenient(element, variant, method, regex, replacement) ==
    LET name_parts == split_camel_case(element)
        v == IF variant # NoVariant THEN variant
             ELSE IF InName("Drop", element) THEN if_exists ELSE if_not_exists
    IN  Return([element |-> element, variant |-> v,
                method |-> <<"visit">> \o MapSeq(lower, name_parts),
                regex |-> MapSeq(upper, name_parts),
                condition |-> MapSeq(upper, name_parts) \o v])

ExistConditionPatcher(element, variant, method, regex, replacement) ==
    IF element = <<>> /\ (method = <<>> \/ regex = <<>> \/ replacement = <<>>)
    THEN Raise(OperationUnknown)
    ELSE IF variant = NoVariant /\ ~InName("Drop", element) /\ ~InName("Create", element)
    THEN Raise(NoVariantAttribute)
    ELSE LET v == IF variant # NoVariant THEN variant
                  ELSE IF InName("Drop", element) THEN if_exists
                  ELSE if_not_exists
             name_parts == split_camel_case(element)
         IN  Return([element |-> element, variant |-> v,
                     method |-> IF method # <<>> THEN method
                                ELSE <<"visit">> \o MapSeq(lower, name_parts),
                     regex |-> IF regex # <<>> THEN regex ELSE MapSeq(upper, name_parts),
                     condition |-> IF replacement # <<>> THEN replacement
                                   ELSE MapSeq(upper, name_parts) \o v])

\* A statement: its type, the text the compiler method named by the patcher
\* gives for it, and its attribute _build_condition ("unset": no attribute)
Statement(element, text, build_condition) ==
    [element |-> element, text |-> text, build_condition |-> build_condition]
NoStatement == Statement(<<>>, <<>>, "unset")

\* `getattr(element, '_build_condition', False)`
BuildCondition(st) == st.build_condition = "true"

\* set_build_condition: a copy of the statement with the attribute set
set_build_condition(st, value) ==
    [st EXCEPT !.build_condition = IF value THEN "true" ELSE "false"]

\* the function create_patch registers, lines 141-150
_if_exists__always(patcher, if_always, st) == inject_condition(patcher, st.text)
_if_exists_(patcher, if_always, st) ==
    LET output == st.text
    IN  IF if_always \/ BuildCondition(st) THEN inject_condition(patcher, output)
        ELSE output

\* the text of the compiler for a statement of a type: the words of its
\* keyword phrase and a word that is not of the phrase (UNIQUE, of a unique
\* index), in any arrangement
TextTokens(element) ==
    {upper[w] : w \in {element[i] : i \in {j \in 1..Len(element) : element[j] \in CapitalWords}}}
        \cup {"UNIQUE"}
Texts(element) == SeqsUpTo(TextTokens(element), MaxTextLen)

PatchIdle ==
    /\ enabling = [state |-> "idle", statements |-> {}, pending |-> {},
                   if_always |-> FALSE, error |-> NoExc]
    /\ registry = {}
    /\ stmt = NoStatement
    /\ compiled = <<>>

\* the sets of statements enable_patches is called with: the default set, and
\* sets with a type that is not of the default set
StatementSets ==
    {ELEMENTS_TO_PATCH} \cup {{CreateTable, DropIndex, e} : e \in OtherElements}

\* enable_patches(statements, if_always) is called
PatchStart ==
    /\ \E statements \in StatementSets, always \in BOOLEAN :
         enabling = [state |-> "enabling", statements |-> statements,
                     pending |-> statements, if_always |-> always, error |-> NoExc]
    /\ registry = {}
    /\ stmt = NoStatement
    /\ compiled = <<>>

\* one turn of the loop of enable_patches, lines 165-166: the patcher of a
\* statement of the set is constructed and create_patch registers its compile
\* function; an exception of the constructor ends enable_patches
Register ==
    /\ enabling.state = "enabling"
    /\ enabling.pending # {}
    /\ \E statement \in enabling.pending :
         LET made == ExistConditionPatcher(statement, NoVariant, <<>>, <<>>, <<>>)
         IN  IF made.kind = "raise"
             THEN /\ enabling' = [enabling EXCEPT !.state = "failed", !.error = made.exc,
                                                  !.pending = @ \ {statement}]
                  /\ UNCHANGED registry
             ELSE /\ enabling' = [enabling EXCEPT !.pending = @ \ {statement}]
                  /\ registry' = {q \in registry : q.element # statement} \cup {made.value}
    /\ UNCHANGED <<stmt, compiled, fn_pc, fn_in, fn_out>>

\* the loop is over: enable_patches returns
Enabled ==
    /\ enabling.state = "enabling"
    /\ enabling.pending = {}
    /\ enabling' = [enabling EXCEPT !.state = "enabled"]
    /\ UNCHANGED <<registry, stmt, compiled, fn_pc, fn_in, fn_out>>

Patched(element) == \E q \in registry : q.element = element
PatcherOf(element) == CHOOSE q \in registry : q.element = element

\* a statement of some type is constructed
NewStatement ==
    /\ enabling.state \in {"enabled", "failed"}
    /\ stmt = NoStatement
    /\ \E element \in ELEMENTS_TO_PATCH \cup {AlterTable} :
         \E text \in Texts(element) : stmt' = Statement(element, text, "unset")
    /\ UNCHANGED <<enabling, registry, compiled, fn_pc, fn_in, fn_out>>

\* `.check_first(value)`, the attribute append_condition_setter put on the type
check_first ==
    /\ stmt # NoStatement
    /\ Patched(stmt.element)
    /\ stmt.build_condition = "unset"
    /\ compiled = <<>>
    /\ \E value \in BOOLEAN : stmt' = set_build_condition(stmt, value)
    /\ UNCHANGED <<enabling, registry, compiled, fn_pc, fn_in, fn_out>>

\* the statement is compiled: by the registered function when its type has
\* one, by the method of the compiler otherwise
Compile ==
    /\ stmt # NoStatement
    /\ Len(compiled) < 2
    /\ compiled' = Append(compiled,
                          IF Patched(stmt.element)
                          THEN _if_exists_(PatcherOf(stmt.element), enabling.if_always, stmt)
                          ELSE stmt.text)
    /\ UNCHANGED <<enabling, registry, stmt, fn_pc, fn_in, fn_out>>

PatchNext ==
    \/ Register /\ UNCHANGED <<wrapVars, execVars, syncVars, modeVars, bootVars, poolVars>>
    \/ Enabled /\ UNCHANGED <<wrapVars, execVars, syncVars, modeVars, bootVars, poolVars>>
    \/ NewStatement /\ UNCHANGED <<wrapVars, execVars, syncVars, modeVars, bootVars, poolVars>>
    \/ check_first /\ UNCHANGED <<wrapVars, execVars, syncVars, modeVars, bootVars, poolVars>>
    \/ Compile /\ UNCHANGED <<wrapVars, execVars, syncVars, modeVars, bootVars, poolVars>>

-----------------------------------------------------------------------------
(* Names, mappings and SQL text of the statement builders *)

\* A name is a sequence of letters; Python compares str lexicographically.
Letters == {"a", "d", "e", "i", "l", "t", "x"}
Rank ==
    [l \in Letters |->
        CASE l = "a" -> 1 [] l = "d" -> 2 [] l = "e" -> 3 [] l = "i" -> 4
          [] l = "l" -> 5 [] l = "t" -> 6 [] l = "x" -> 7]

RECURSIVE LexLess(_, _)
LexLess(a, b) ==
    IF a = <<>> THEN b # <<>>
    ELSE IF b = <<>> THEN FALSE
    ELSE IF Head(a) = Head(b) THEN LexLess(Tail(a), Tail(b))
    ELSE Rank[Head(a)] < Rank[Head(b)]

id == <<"i", "d">>
ColumnNames == {<<"a">>, id, <<"i", "d", "x">>, <<"t", "i", "t", "l", "e">>}

\* Python values: None, the empty string, and others
None == "None"
EmptyStr == ""
PyValues == {None, EmptyStr, "3", "test_string"}

\* A dict is the sequence of its items, in insertion order, keys distinct.
Item(k, v) == [k |-> k, v |-> v]
Keys(dict) == [i \in 1..Len(dict) |-> dict[i].k]
KeySet(dict) == {dict[i].k : i \in 1..Len(dict)}
HasKey(dict, k) == k \in KeySet(dict)
Get(dict, k) == (CHOOSE i \in 1..Len(dict) : dict[i].k = k)

Distinct(seq) == \A i, j \in 1..Len(seq) : i # j => seq[i] # seq[j]

NameLists == {ks \in SeqsUpTo(ColumnNames, MaxKeys) : Distinct(ks)}

DictsOver(ks, Vals) ==
    {[i \in 1..Len(ks) |-> Item(ks[i], vs[i])] : vs \in [1..Len(ks) -> Vals]}

\* sorted(names): insertion into the sorted rest
RECURSIVE Insert(_, _)
Insert(x, seq) ==
    IF seq = <<>> THEN <<x>>
    ELSE IF LexLess(Head(seq), x) THEN <<Head(seq)>> \o Insert(x, Tail(seq))
    ELSE <<x>> \o seq

RECURSIVE sorted(_)
sorted(seq) == IF seq = <<>> THEN <<>> ELSE Insert(Head(seq), sorted(Tail(seq)))

\* SQL text is a sequence of tokens: literal text, names, and the parameter
\* placeholders %(name)s
Lit(text) == [t |-> text, name |-> <<>>]
Name(name) == [t |-> "name", name |-> name]
Placeholder(name) == [t |-> "%()s", name |-> name]
Literal(value) == [t |-> "value", name |-> <<value>>]

\* separator.join(parts)
RECURSIVE join(_, _)
join(separator, parts) ==
    IF parts = <<>> THEN <<>>
    ELSE IF Len(parts) = 1 THEN parts[1]
    ELSE parts[1] \o <<separator>> \o join(separator, Tail(parts))

-----------------------------------------------------------------------------
(* SQLQueryBuilder: sql_query_builder.py *)

\* '{key} = %({key})s'.format(key=k)
ParamTerm(k) == <<Name(k), Lit("="), Placeholder(k)>>

_build_params_list_unsorted(separator, params_dict) ==
    join(Lit(separator), [i \in 1..Len(params_dict) |-> ParamTerm(Keys(params_dict)[i])])
_build_params_list(separator, params_dict) ==
    LET keys == sorted(Keys(params_dict))
    IN  join(Lit(separator), [i \in 1..Len(keys) |-> ParamTerm(keys[i])])

\* the pair (text, parameters) a builder method returns
Query(text, params) == [text |-> text, params |-> params]

get_element(schema_name, table_name, cond_dict) ==
    Query(<<Lit("SELECT * FROM"), Name(schema_name), Lit("."), Name(table_name), Lit("WHERE")>>
            \o _build_params_list(" AND ", cond_dict) \o <<Lit(";")>>,
          cond_dict)

get_element_by_id(schema_name, table_name, id_value, id_column) ==
    get_element(schema_name, table_name, <<Item(id_column, id_value)>>)

delete_element(schema_name, table_name, cond_dict) ==
    Query(<<Lit("DELETE FROM"), Name(schema_name), Lit("."), Name(table_name), Lit("WHERE")>>
            \o _build_params_list(" AND ", cond_dict) \o <<Lit(";")>>,
          cond_dict)

delete_element_by_id(schema_name, table_name, id_value, id_column) ==
    delete_element(schema_name, table_name, <<Item(id_column, id_value)>>)

\* dict.__setitem__: the value of a key is replaced in place, a new key is
\* appended; dict.update(other) sets the items of `other` in their order
DictSet(dict, k, v) ==
    IF HasKey(dict, k) THEN [dict EXCEPT ![Get(dict, k)].v = v] ELSE Append(dict, Item(k, v))

RECURSIVE dict_update(_, _)
dict_update(dict, other) ==
    IF other = <<>> THEN dict
    ELSE dict_update(DictSet(dict, Head(other).k, Head(other).v), Tail(other))

\* update_element: the pair it returns, and the two mappings of the caller
\* as the call leaves them (cond_dict.copy() is a new mapping)
update_element_in_place(schema_name, table_name, cond_dict, values) ==
    LET query_params == dict_update(cond_dict, values)
    IN  [text |-> <<Lit("UPDATE"), Name(schema_name), Lit("."), Name(table_name), Lit("SET")>>
                    \o _build_params_list(", ", values) \o <<Lit("WHERE")>>
                    \o _build_params_list(" AND ", query_params) \o <<Lit(";")>>,
         params |-> query_params,
         cond_dict |-> query_params,
         values |-> values]

update_element(schema_name, table_name, cond_dict, values) ==
    LET query_params == dict_update(cond_dict, values)
    IN  [text |-> <<Lit("UPDATE"), Name(schema_name), Lit("."), Name(table_name), Lit("SET")>>
                    \o _build_params_list(", ", values) \o <<Lit("WHERE")>>
                    \o _build_params_list(" AND ", cond_dict) \o <<Lit(";")>>,
         params |-> query_params,
         cond_dict |-> cond_dict,
         values |-> values]

test_schema == <<"t", "e">>
test_table == <<"t", "a">>

\* the arguments of one call of a method of SQLQueryBuilder
SqlCalls ==
    {[fn |-> f, cond_dict |-> d, id_value |-> None, id_column |-> id] :
        f \in {"get_element", "delete_element"},
        d \in UNION {DictsOver(ks, {"1234", "a test title"}) : ks \in NameLists}}
    \cup
    {[fn |-> f, cond_dict |-> <<>>, id_value |-> v, id_column |-> c] :
        f \in {"get_element_by_id", "delete_element_by_id"},
        v \in {"1234", "a test title"}, c \in ColumnNames}

UpdateCalls ==
    {[fn |-> "update_element", cond_dict |-> d, values |-> v] :
        d \in UNION {DictsOver(ks, {"1234"}) : ks \in NameLists},
        v \in UNION {DictsOver(ks, {"a test title"}) : ks \in NameLists}}

FnCall(fn, out) ==
    /\ fn_pc = "call"
    /\ fn_in.fn = fn
    /\ fn_pc' = "done"
    /\ fn_out' = out
    /\ UNCHANGED <<fn_in, enabling, registry, stmt, compiled>>

SqlGet == FnCall("get_element", get_element(test_schema, test_table, fn_in.cond_dict))
SqlDelete == FnCall("delete_element", delete_element(test_schema, test_table, fn_in.cond_dict))
SqlGetById ==
    FnCall("get_element_by_id",
           get_element_by_id(test_schema, test_table, fn_in.id_value, fn_in.id_column))
SqlDeleteById ==
    FnCall("delete_element_by_id",
           delete_element_by_id(test_schema, test_table, fn_in.id_value, fn_in.id_column))

SqlUpdate ==
    FnCall("update_element",
           update_element(test_schema, test_table, fn_in.cond_dict, fn_in.values))

FnStart(Calls) ==
    /\ fn_pc = "call"
    /\ fn_in \in Calls
    /\ fn_out = <<>>
    /\ PatchIdle

-----------------------------------------------------------------------------
(* QueryBuilder: query_builder.py *)

\* getattr(obj, name): the object is the mapping of its attributes
NoAttribute(name) == Exc("AttributeError", << <<"object has no attribute">> \o name >>)

\* `v not in (None, '')`
Kept(v) == v # None /\ v # EmptyStr

\* columns_to_dict(obj, columns, filtered); `columns` are the names c[0]
columns_to_dict_unfiltered(obj, columns, filtered) ==
    IF \E i \in 1..Len(columns) : ~HasKey(obj, columns[i])
    THEN Raise(NoAttribute(columns[CHOOSE i \in 1..Len(columns) :
                    /\ ~HasKey(obj, columns[i])
                    /\ \A j \in 1..(i - 1) : HasKey(obj, columns[j])]))
    ELSE Return([i \in 1..Len(columns) |-> Item(columns[i], obj[Get(obj, columns[i])].v)])

columns_to_dict(obj, columns, filtered) ==
    IF \E i \in 1..Len(columns) : ~HasKey(obj, columns[i])
    THEN Raise(NoAttribute(columns[CHOOSE i \in 1..Len(columns) :
                    /\ ~HasKey(obj, columns[i])
                    /\ \A j \in 1..(i - 1) : HasKey(obj, columns[j])]))
    ELSE LET params == [i \in 1..Len(columns) |->
                            Item(columns[i], obj[Get(obj, columns[i])].v)]
             kept(item) == Kept(item.v)
         IN  IF ~filtered THEN Return(params) ELSE Return(SelectSeq(params, kept))

\* kwargs[column.name] for a name that is not a key
KeyError(name) == Exc("KeyError", <<name>>)

\* A clause: the comparator that joins it and its comparisons
\* `column == value`, in the order the comparator received them
Clause(comparator, terms) == [comparator |-> comparator, terms |-> terms]
NoClause == Clause("", <<>>)

\* build_clause(comparator, columns, **kwargs); `columns` are the names
build_clause(comparator, columns, kwargs) ==
    IF \E i \in 1..Len(columns) : ~HasKey(kwargs, columns[i])
    THEN Raise(KeyError(columns[CHOOSE i \in 1..Len(columns) :
                    /\ ~HasKey(kwargs, columns[i])
                    /\ \A j \in 1..(i - 1) : HasKey(kwargs, columns[j])]))
    ELSE Return(Clause(comparator,
                       [i \in 1..Len(columns) |->
                            Item(columns[i], kwargs[Get(kwargs, columns[i])].v)]))

\* PartialPrimaryKeyException(missing_keys): the names joined with ', '
PartialPrimaryKeyException(missing_keys) ==
    Exc("PartialPrimaryKeyException",
        << <<"Missing primary key fields: ">> \o join(", ", missing_keys) >>)

\* build_pk_clause(table, **kwargs); `primary_key` are the names of
\* table.primary_key.columns, in the order of the key
build_pk_clause_lenient(primary_key, kwargs) ==
    LET present(name) == HasKey(kwargs, name)
    IN  build_clause("AND", SelectSeq(primary_key, present), kwargs)

build_pk_clause(primary_key, kwargs) ==
    LET absent(name) == ~HasKey(kwargs, name)
        missing_keys == SelectSeq(primary_key, absent)
    IN  IF Len(missing_keys) # 0
        THEN Raise(PartialPrimaryKeyException(missing_keys))
        ELSE build_clause("AND", primary_key, kwargs)

\* the text of a clause compiled with literal_binds: `name = value`, or
\* `name IS NULL` for None, joined with the comparator
TermText(term) ==
    IF term.v = None THEN <<Name(term.k), Lit("IS NULL")>>
    ELSE <<Name(term.k), Lit("="), Literal(term.v)>>

get_compiled_command(command) ==
    join(Lit(command.comparator), [i \in 1..Len(command.terms) |-> TermText(command.terms[i])])

\* the arguments of one call of a method of QueryBuilder
ClauseCalls ==
    {[fn |-> "build_clause", comparator |-> c, columns |-> cols, kwargs |-> kw] :
        c \in {"AND", "OR"}, cols \in NameLists \ {<<>>},
        kw \in UNION {DictsOver(ks, {None, "3"}) : ks \in {sorted(n) : n \in NameLists}}}

PkCalls ==
    {[fn |-> "build_pk_clause", primary_key |-> pk, kwargs |-> kw] :
        pk \in NameLists \ {<<>>},
        kw \in UNION {DictsOver(ks, {"11", "13"}) : ks \in {sorted(n) : n \in NameLists}}}

DictCalls ==
    {[fn |-> "columns_to_dict", obj |-> o, columns |-> cols, filtered |-> f] :
        o \in UNION {DictsOver(ks, PyValues) : ks \in {sorted(n) : n \in NameLists}},
        cols \in NameLists, f \in BOOLEAN}

\* build_clause, and the clause compiled as the tests compile it
BuildClause ==
    LET built == build_clause(fn_in.comparator, fn_in.columns, fn_in.kwargs)
    IN  FnCall("build_clause",
               [built |-> built,
                text |-> IF built.kind = "return" THEN get_compiled_command(built.value)
                         ELSE <<>>])

BuildPkClause == FnCall("build_pk_clause", build_pk_clause(fn_in.primary_key, fn_in.kwargs))

ColumnsToDict ==
    FnCall("columns_to_dict", columns_to_dict(fn_in.obj, fn_in.columns, fn_in.filtered))

-----------------------------------------------------------------------------
(* DBEntity: db_entity.py *)

\* The Python objects a method of DBEntity handles: None, a list of rows, an
\* instance of the class (the mapping of its attributes), a Future and the
\* outcome it will have.
PyNone == [tag |-> "None", items |-> <<>>, outcome |-> Pending]
ListOf(rows) == [tag |-> "list", items |-> rows, outcome |-> Pending]
Instance(row) == [tag |-> "instance", items |-> row, outcome |-> Pending]
FutureOf(reply) == [tag |-> "Future", items |-> <<>>, outcome |-> reply]

\* The command a method hands to execute_command
TableSelect(condition) ==
    [verb |-> "select", where |-> condition, values |-> <<>>, returning |-> <<>>]
TableInsert(values, returning) ==
    [verb |-> "insert", where |-> NoClause, values |-> values, returning |-> returning]
TableDelete(condition) ==
    [verb |-> "delete", where |-> condition, values |-> <<>>, returning |-> <<>>]
TableUpdate(condition, values) ==
    [verb |-> "update", where |-> condition, values |-> values, returning |-> <<>>]
NoEntityCommand == [verb |-> "", where |-> NoClause, values |-> <<>>, returning |-> <<>>]

\* DBConnection.execute_command(command, async=async), `reply` being how the
\* command ends on the database (its list of converted rows, or its error):
\* with async the caller is given the future of the call; without, run_sync
\* gives the result of that future or raises its error.
Executed(async, reply) ==
    IF async THEN Return(FutureOf(reply))
    ELSE IF reply.kind = "raise" THEN reply
    ELSE Return(ListOf(reply.value))

\* len(x) of an object that has no length
NoLen(tag) == Exc("TypeError", << <<"object of type '", tag, "' has no len()">> >>)

IncorrectResultSizeException(received, expected) ==
    Exc("IncorrectResultSizeException",
        << <<"Result set does not contain exactly ", ToString(expected),
             " result(s). Received ", ToString(received), " items.">> >>)

SaveEntityFailedException(reason) ==
    Exc("SaveEntityFailedException", << <<"Entity creation failed. Reason: ">> \o reason >>)

\* cls.get(condition, async): the select with the condition, each row converted
\* to an instance of the class by list_mapper(converter=cls)
get(condition, async, reply) ==
    Executed(async,
             IF reply.kind = "raise" THEN reply
             ELSE Return([i \in 1..Len(reply.value) |-> Instance(reply.value[i])]))

\* cls.get_by_pk(async, **kwargs); `primary_key` are the names of the key columns
get_by_pk_first(primary_key, async, kwargs, reply) ==
    LET condition == build_pk_clause(primary_key, kwargs)
    IN  IF condition.kind = "raise"
        THEN [command |-> NoEntityCommand, out |-> condition]
        ELSE LET found == get(condition.value, async, reply)
             IN  [command |-> TableSelect(condition.value),
                  out |-> IF found.kind = "raise" THEN found
                          ELSE IF async THEN found
                          ELSE IF found.value.items = <<>> THEN Return(PyNone)
                          ELSE Return(found.value.items[1])]

get_by_pk(primary_key, async, kwargs, reply) ==
    LET condition == build_pk_clause(primary_key, kwargs)
    IN  IF condition.kind = "raise"
        THEN [command |-> NoEntityCommand, out |-> condition]
        ELSE LET found == get(condition.value, async, reply)
                 expected_result_size == 1
             IN  [command |-> TableSelect(condition.value),
                  out |-> IF found.kind = "raise" THEN found
                          ELSE IF async THEN found
                          ELSE IF found.value.items = <<>> THEN Return(PyNone)
                          ELSE IF Len(found.value.items) # expected_result_size
                          THEN Raise(IncorrectResultSizeException(
                                        Len(found.value.items), expected_result_size))
                          ELSE Return(found.value.items[1])]

\* setattr(obj, k, v), and the loop of save over returned.items()
setattr(obj, k, v) ==
    IF HasKey(obj, k) THEN [obj EXCEPT ![Get(obj, k)].v = v] ELSE Append(obj, Item(k, v))

RECURSIVE SetAll(_, _)
SetAll(obj, items) ==
    IF items = <<>> THEN obj
    ELSE SetAll(setattr(obj, Head(items).k, Head(items).v), Tail(items))

\* cls.create(async, **kwargs) with no `returning`: the insert of the values
\* returning the primary-key columns; the rows come as list_mapper gives them
create(pk_columns, async, kwargs, reply) ==
    [command |-> TableInsert(kwargs, pk_columns), returned |-> Executed(async, reply)]

\* self.save(async); `self` is the mapping of the instance's attributes
save(self, non_pk_columns, pk_columns, async, reply) ==
    LET fields == columns_to_dict(self, non_pk_columns, TRUE)
    IN  IF fields.kind = "raise"
        THEN [command |-> NoEntityCommand, out |-> fields, self |-> self]
        ELSE LET created == create(pk_columns, async, fields.value, reply)
                 returned == created.returned
             IN  IF returned.kind = "raise"
                 THEN [command |-> created.command, out |-> returned, self |-> self]
                 ELSE IF returned.value.tag # "list"
                 THEN [command |-> created.command,
                       out |-> Raise(NoLen(returned.value.tag)), self |-> self]
                 ELSE IF Len(returned.value.items) # 1
                 THEN [command |-> created.command,
                       out |-> Raise(SaveEntityFailedException(
                                   <<"Invalid number of pk fields used - ",
                                     ToString(Len(returned.value.items)), ".">>)),
                       self |-> self]
                 ELSE [command |-> created.command, out |-> Return(PyNone),
                       self |-> SetAll(self, returned.value.items[1])]

\* the table of the entity: its columns, and the columns of its primary key
idx == <<"i", "d", "x">>
title == <<"t", "i", "t", "l", "e">>
\* cls.delete_element(condition, async) and cls.update_element(condition,
\* async, **kwargs): what execute_command gives is returned
DBEntity_delete_element(condition, async, reply) ==
    [command |-> TableDelete(condition), returned |-> Executed(async, reply)]

DBEntity_update_element(condition, async, kwargs, reply) ==
    [command |-> TableUpdate(condition, kwargs), returned |-> Executed(async, reply)]

\* self.delete(async): the body is the call of delete_element, whose value is
\* not returned; a call that does not raise gives None
delete(self, pk_columns, async, reply) ==
    LET pk_fields == columns_to_dict(self, pk_columns, TRUE)
        condition == build_pk_clause(pk_columns, pk_fields.value)
    IN  IF pk_fields.kind = "raise"
        THEN [command |-> NoEntityCommand, out |-> pk_fields, self |-> self]
        ELSE IF condition.kind = "raise"
        THEN [command |-> NoEntityCommand, out |-> condition, self |-> self]
        ELSE LET deleted == DBEntity_delete_element(condition.value, async, reply)
             IN  [command |-> deleted.command,
                  out |-> IF deleted.returned.kind = "raise" THEN deleted.returned
                          ELSE Return(PyNone),
                  self |-> self]

\* self.update(async): as delete, with the non-primary-key fields as values
update(self, non_pk_columns, pk_columns, async, reply) ==
    LET pk_fields == columns_to_dict(self, pk_columns, TRUE)
        condition == build_pk_clause(pk_columns, pk_fields.value)
        fields == columns_to_dict(self, non_pk_columns, TRUE)
    IN  IF pk_fields.kind = "raise"
        THEN [command |-> NoEntityCommand, out |-> pk_fields, self |-> self]
        ELSE IF condition.kind = "raise"
        THEN [command |-> NoEntityCommand, out |-> condition, self |-> self]
        ELSE IF fields.kind = "raise"
        THEN [command |-> NoEntityCommand, out |-> fields, self |-> self]
        ELSE LET updated == DBEntity_update_element(condition.value, async,
                                                    fields.value, reply)
             IN  [command |-> updated.command,
                  out |-> IF updated.returned.kind = "raise" THEN updated.returned
                          ELSE Return(PyNone),
                  self |-> self]

EntityColumns == <<id, idx, title>>
EntityKeys == {<<id>>, <<id, idx>>}
NonPk(pk_columns) ==
    LET other(c) == \A i \in 1..Len(pk_columns) : pk_columns[i] # c
    IN  SelectSeq(EntityColumns, other)

\* how a command ends on the database: the rows it gives, or its error
Replies(Rows) ==
    {Return(rows) : rows \in SeqsUpTo(Rows, MaxBatch)} \cup {Raise(e) : e \in ExecuteErrors}

SelectedRows ==
    {<<Item(id, "11"), Item(idx, None), Item(title, "3")>>,
     <<Item(id, "13"), Item(idx, None), Item(title, EmptyStr)>>}

\* the arguments of one call of a method of DBEntity, and the database's reply
LookupCalls ==
    {[fn |-> "get_by_pk", primary_key |-> pk, async |-> a, kwargs |-> kw, reply |-> r] :
        pk \in EntityKeys, a \in BOOLEAN,
        kw \in UNION {DictsOver(ks, {"11"}) : ks \in {sorted(n) : n \in NameLists}},
        r \in Replies(SelectedRows)}

SaveCalls ==
    UNION {{[fn |-> "save", self |-> o, pk_columns |-> pk, async |-> a, reply |-> r] :
                o \in DictsOver(EntityColumns, {None, EmptyStr, "3"}), a \in BOOLEAN,
                r \in Replies(DictsOver(pk, {"11", "13"}))} : pk \in EntityKeys}

\* delete and update of an instance: the statement affects rows and returns
\* none, or the database refuses it
InstanceCalls ==
    UNION {{[fn |-> f, self |-> o, pk_columns |-> pk, async |-> a, reply |-> r] :
                f \in {"delete", "update"},
                o \in DictsOver(EntityColumns, {None, "3"}), a \in BOOLEAN,
                r \in {Return(<<>>)} \cup {Raise(e) : e \in ExecuteErrors}} : pk \in EntityKeys}

EntityCalls == LookupCalls \cup SaveCalls \cup InstanceCalls

GetByPk ==
    FnCall("get_by_pk",
           get_by_pk(fn_in.primary_key, fn_in.async, fn_in.kwargs, fn_in.reply))

Save ==
    FnCall("save",
           save(fn_in.self, NonPk(fn_in.pk_columns), fn_in.pk_columns, fn_in.async,
                fn_in.reply))

Delete ==
    FnCall("delete", delete(fn_in.self, fn_in.pk_columns, fn_in.async, fn_in.reply))

Update ==
    FnCall("update",
           update(fn_in.self, NonPk(fn_in.pk_columns), fn_in.pk_columns, fn_in.async,
                  fn_in.reply))

-----------------------------------------------------------------------------
(* The bootstrap: DBController in db_controller.py *)

\* the schema of the configuration and the tables of the models
AppSchema == "schema"
User == "user"
UserProperty == "user_property"
Tag == "tag"

\* the orders _setup_database imports from models
create_order == <<User, UserProperty, Tag>>
drop_order == <<UserProperty, Tag, User>>

\* ddl.CreateSchema(schema), ddl.DropSchema(schema), ddl.CreateTable(table), ddl.DropTable(table)
Ddl(verb, obj) == [verb |-> verb, obj |-> obj]
NoDdl == Ddl("", "")

\* The database: what a statement does to the catalog, or the error it
\* raises, with the message of the server in e.args[0].
\* the name of an object as the server quotes it
Quoted(obj) == obj
ServerError(words) == Exc("ProgrammingError", <<words \o <<Blank>> >>)

Apply(cat, st) ==
    CASE st.verb = "CREATE SCHEMA" ->
            IF AppSchema \in cat
            THEN [exc |-> ServerError(<<"schema ", Quoted(st.obj), " already exists">>),
                  catalog |-> cat]
            ELSE [exc |-> NoExc, catalog |-> cat \cup {AppSchema}]
      [] st.verb = "DROP SCHEMA" ->
            IF AppSchema \notin cat
            THEN [exc |-> ServerError(<<"schema ", Quoted(st.obj), " does not exist">>),
                  catalog |-> cat]
            ELSE IF cat # {AppSchema}
            THEN [exc |-> Exc("InternalError",
                              << <<"cannot drop schema ", st.obj,
                                   " because other objects depend on it">> >>),
                  catalog |-> cat]
            ELSE [exc |-> NoExc, catalog |-> {}]
      [] st.verb = "CREATE TABLE" ->
            IF AppSchema \notin cat
            THEN [exc |-> ServerError(<<"schema ", Quoted(AppSchema), " does not exist">>),
                  catalog |-> cat]
            ELSE IF st.obj \in cat
            THEN [exc |-> ServerError(<<"relation ", Quoted(st.obj), " already exists">>),
                  catalog |-> cat]
            ELSE [exc |-> NoExc, catalog |-> cat \cup {st.obj}]
      [] st.verb = "DROP TABLE" ->
            IF AppSchema \notin cat
            THEN [exc |-> ServerError(<<"schema ", Quoted(AppSchema), " does not exist">>),
                  catalog |-> cat]
            ELSE IF st.obj \notin cat
            THEN [exc |-> ServerError(<<"table ", Quoted(st.obj), " does not exist">>),
                  catalog |-> cat]
            ELSE [exc |-> NoExc, catalog |-> cat \ {st.obj}]

\* errors of the driver that do not come from the catalog
OtherErrors ==
    {Exc("OperationalError", << <<"connection lost">> >>),
     Exc("ProgrammingError", << <<"permission denied for ", "schema ">> >>)}

\* the message validators of create_schema, drop_schema, create_table, drop_table
create_table_validator_strict == StartsEnds("table ", " already exists")
create_table_validator == StartsEnds("relation ", " already exists")

validator_of(st) ==
    CASE st.verb = "CREATE SCHEMA" -> StartsEnds("schema ", " already exists")
      [] st.verb = "DROP SCHEMA"   -> StartsEnds("schema ", " does not exist")
      [] st.verb = "CREATE TABLE"  -> create_table_validator
      [] st.verb = "DROP TABLE"    -> StartsEnds("table ", " does not exist")

\* where _setup_database is: the method it awaits and, in drop_all and
\* create_all, the index of the table in the loop
At(pc, i) == [pc |-> pc, i |-> i]

\* the statement the routine issues at a place
StatementAt(at) ==
    CASE at.pc = "drop_all"      -> Ddl("DROP TABLE", drop_order[at.i])
      [] at.pc = "drop_schema"   -> Ddl("DROP SCHEMA", AppSchema)
      [] at.pc = "create_schema" -> Ddl("CREATE SCHEMA", AppSchema)
      [] at.pc = "create_all"    -> Ddl("CREATE TABLE", create_order[at.i])

\* lines 188-195 and the loops of drop_all and create_all: the place after
\* the call at `at` returned
_setup_database_tables_first(clean, at) ==
    CASE at.pc = "start"         -> IF clean THEN At("drop_all", 1) ELSE At("create_all", 1)
      [] at.pc = "drop_all"      -> IF at.i < Len(drop_order) THEN At("drop_all", at.i + 1)
                                    ELSE At("drop_schema", 0)
      [] at.pc = "drop_schema"   -> At("create_all", 1)
      [] at.pc = "create_all"    -> IF at.i < Len(create_order) THEN At("create_all", at.i + 1)
                                    ELSE At("create_schema", 0)
      [] at.pc = "create_schema" -> At("done", 0)

_setup_database(clean, at) ==
    CASE at.pc = "start"         -> IF clean THEN At("drop_all", 1) ELSE At("create_schema", 0)
      [] at.pc = "drop_all"      -> IF at.i < Len(drop_order) THEN At("drop_all", at.i + 1)
                                    ELSE At("drop_schema", 0)
      [] at.pc = "drop_schema"   -> At("create_schema", 0)
      [] at.pc = "create_schema" -> At("create_all", 1)
      [] at.pc = "create_all"    -> IF at.i < Len(create_order) THEN At("create_all", at.i + 1)
                                    ELSE At("done", 0)

\* the coroutine that runs the statements of the bootstrap, one call of
\* execute_command_async after the other
BootTask == 1

\* an entry of the log: the statement issued, or how its call ended
Event(ev, st, exc) == [ev |-> ev, st |-> st, exc |-> exc]

BootIdle ==
    /\ catalog = {}
    /\ boot = [at |-> At("idle", 0), clean |-> FALSE, log |-> <<>>, out |-> Pending,
               runs |-> 0, before |-> {}, ends |-> <<>>]

\* the catalogs the database can hold: tables are in the schema, and the
\* tables that reference user exist only with it
Catalogs ==
    {{}} \cup {{AppSchema} \cup ts : ts \in {x \in SUBSET {User, UserProperty, Tag} :
                                              (x # {}) => User \in x}}

BootStart ==
    /\ catalog \in Catalogs
    /\ boot = [at |-> At("idle", 0), clean |-> FALSE, log |-> <<>>, out |-> Pending,
               runs |-> 0, before |-> {}, ends |-> <<>>]

\* _setup_database(clean) is called: line 188-190
SetupDatabase ==
    /\ boot.at.pc \in {"idle", "done", "failed"}
    /\ boot.runs < MaxRuns
    /\ task[BootTask].pc = "idle"
    /\ \E clean \in BOOLEAN :
         boot' = [boot EXCEPT !.at = _setup_database(clean, At("start", 0)),
                              !.clean = clean, !.log = <<>>, !.out = Pending,
                              !.runs = @ + 1, !.before = catalog]
    /\ UNCHANGED <<catalog, execVars>>

\* the method awaited calls _exception_wrapper(message_validator, command):
\* exception_wrapper calls execute_command(command), which is asynchronous by
\* default and starts execute_command_async
BootIssue ==
    /\ boot.at.pc \in {"drop_all", "drop_schema", "create_schema", "create_all"}
    /\ task[BootTask].pc = "idle"
    /\ Submit(BootTask, {NoCommand}, {NoLoop}, {1})
    /\ boot' = [boot EXCEPT !.log = Append(@, Event("issue", StatementAt(boot.at), NoExc))]
    /\ UNCHANGED catalog

BootConnect == Connect(BootTask) /\ UNCHANGED bootVars

\* conn.execute(command): the database applies the statement or raises
BootExecute ==
    LET done == Apply(catalog, StatementAt(boot.at))
    IN  /\ boot.at.pc \in {"drop_all", "drop_schema", "create_schema", "create_all"}
        /\ \/ /\ done.exc = NoExc
              /\ ExecuteWith(BootTask, {})
              /\ catalog' = done.catalog
           \/ /\ done.exc # NoExc
              /\ ExecuteWith(BootTask, {done.exc})
              /\ task'[BootTask].pc = "failed"
              /\ UNCHANGED catalog
           \/ /\ ExecuteWith(BootTask, OtherErrors)
              /\ task'[BootTask].pc = "failed"
              /\ UNCHANGED catalog
        /\ UNCHANGED boot

BootFetch == Fetch(BootTask) /\ UNCHANGED bootVars

\* the future of execute_command resolved: exception_wrapper masks the error
\* the validator accepts or raises it, and the routine goes on or ends
BootResume ==
    /\ boot.at.pc \in {"drop_all", "drop_schema", "create_schema", "create_all"}
    /\ task[BootTask].pc \in {"done", "failed"}
    /\ LET st == StatementAt(boot.at)
           outcome == exception_wrapper(task[BootTask].handle, "ProgrammingError",
                                        validator_of(st))
           next == IF outcome.kind = "raise" THEN At("failed", 0)
                   ELSE _setup_database(boot.clean, boot.at)
           out == IF outcome.kind = "raise" THEN outcome
                  ELSE IF next.pc = "done" THEN Return(<<>>) ELSE Pending
       IN  boot' = [boot EXCEPT
                       !.at = next,
                       !.out = out,
                       !.log = Append(@, Event(IF outcome.kind = "raise" THEN "raised"
                                               ELSE "complete", st,
                                               task[BootTask].handle.exc)),
                       !.ends = IF next.pc \in {"done", "failed"}
                                THEN Append(@, [clean |-> boot.clean, out |-> out,
                                                before |-> boot.before,
                                                catalog |-> catalog])
                                ELSE @]
    /\ task' = [task EXCEPT ![BootTask] = IdleTask]
    /\ UNCHANGED <<catalog, pool_cached, pools, failed_pools>>

BootNext ==
    \/ SetupDatabase /\ UNCHANGED <<wrapVars, syncVars, modeVars, fnVars, poolVars>>
    \/ BootIssue /\ UNCHANGED <<wrapVars, syncVars, modeVars, fnVars, poolVars>>
    \/ BootConnect /\ UNCHANGED <<wrapVars, syncVars, modeVars, fnVars, poolVars>>
    \/ BootExecute /\ UNCHANGED <<wrapVars, syncVars, modeVars, fnVars, poolVars>>
    \/ BootFetch /\ UNCHANGED <<wrapVars, syncVars, modeVars, fnVars, poolVars>>
    \/ BootResume /\ UNCHANGED <<wrapVars, syncVars, modeVars, fnVars, poolVars>>

-----------------------------------------------------------------------------
(* Initial states and specifications *)

ExecInit ==
    /\ pool_cached = NoPool
    /\ pools = <<>>
    /\ failed_pools = {}
    /\ task = [t \in Tasks |-> IdleTask]
    /\ acquisitions = <<>>

\* ---- the commands of concurrent tasks: short result sets, batch size 1
SmallCommands ==
    {Command(TRUE, <<"mapping">>, a) : a \in BOOLEAN} \cup {Command(FALSE, <<>>, FALSE)}

WrapIdle == wrap_pc = "idle" /\ wrap_in = <<>> /\ wrap_out = <<>>

\* no call of execute_command through its mode flag, no builder call
ModeIdle ==
    /\ db = NoDatabase
    /\ mode = [t \in Tasks |-> "none"]
    /\ given = [t \in Tasks |-> Nothing]

FnIdle ==
    /\ fn_pc = "idle" /\ fn_in = <<>> /\ fn_out = <<>>
    /\ PatchIdle

Init == ExecInit /\ WrapIdle /\ SyncIdle /\ ModeIdle /\ FnIdle /\ BootIdle

Next ==
    \/ \E t \in Tasks : Submit(t, SmallCommands, Loops \cup {NoLoop}, {1}) /\ UNCHANGED <<wrapVars, syncVars, modeVars, fnVars, bootVars, poolVars>>
    \/ \E t \in Tasks : Connect(t) /\ UNCHANGED <<wrapVars, syncVars, modeVars, fnVars, bootVars, poolVars>>
    \/ \E t \in Tasks : Execute(t) /\ UNCHANGED <<wrapVars, syncVars, modeVars, fnVars, bootVars, poolVars>>
    \/ \E t \in Tasks : Fetch(t) /\ UNCHANGED <<wrapVars, syncVars, modeVars, fnVars, bootVars, poolVars>>
    \/ \E t \in Tasks : ParseRow(t) /\ UNCHANGED <<wrapVars, syncVars, modeVars, fnVars, bootVars, poolVars>>
    \/ \E t \in Tasks : AwaitRow(t) /\ UNCHANGED <<wrapVars, syncVars, modeVars, fnVars, bootVars, poolVars>>

Spec == Init /\ [][Next]_vars

\* ---- one command drained alone: every result set up to MaxRows rows, every
\* batch size up to MaxBatch, synchronous and asynchronous converters
DrainCommands ==
    {Command(TRUE, rows, a) : rows \in SeqsUpTo(RowKinds, MaxRows), a \in BOOLEAN}
        \cup {Command(FALSE, <<>>, a) : a \in BOOLEAN}

DrainNext ==
    \/ Submit(1, DrainCommands, {NoLoop}, 1..MaxBatch) /\ UNCHANGED <<wrapVars, syncVars, modeVars, fnVars, bootVars, poolVars>>
    \/ Connect(1) /\ UNCHANGED <<wrapVars, syncVars, modeVars, fnVars, bootVars, poolVars>>
    \/ Execute(1) /\ UNCHANGED <<wrapVars, syncVars, modeVars, fnVars, bootVars, poolVars>>
    \/ Fetch(1) /\ UNCHANGED <<wrapVars, syncVars, modeVars, fnVars, bootVars, poolVars>>
    \/ ParseRow(1) /\ UNCHANGED <<wrapVars, syncVars, modeVars, fnVars, bootVars, poolVars>>
    \/ AwaitRow(1) /\ UNCHANGED <<wrapVars, syncVars, modeVars, fnVars, bootVars, poolVars>>

SpecDrain == Init /\ [][DrainNext]_vars

\* ---- one command of every length drained alone under fair scheduling: the
\* loop resumes a coroutine whose awaited connect, execute, fetch or
\* converter future has completed
LengthCommands ==
    {Command(TRUE, [i \in 1..n |-> "mapping"], a) : n \in 0..MaxRows, a \in BOOLEAN}
        \cup {Command(FALSE, <<>>, FALSE)}

LengthNext ==
    \/ Submit(1, LengthCommands, {NoLoop}, 1..MaxBatch) /\ UNCHANGED <<wrapVars, syncVars, modeVars, fnVars, bootVars, poolVars>>
    \/ Connect(1) /\ UNCHANGED <<wrapVars, syncVars, modeVars, fnVars, bootVars, poolVars>>
    \/ Execute(1) /\ UNCHANGED <<wrapVars, syncVars, modeVars, fnVars, bootVars, poolVars>>
    \/ Fetch(1) /\ UNCHANGED <<wrapVars, syncVars, modeVars, fnVars, bootVars, poolVars>>
    \/ ParseRow(1) /\ UNCHANGED <<wrapVars, syncVars, modeVars, fnVars, bootVars, poolVars>>
    \/ AwaitRow(1) /\ UNCHANGED <<wrapVars, syncVars, modeVars, fnVars, bootVars, poolVars>>

FairDrain == Init /\ [][LengthNext]_vars /\ WF_vars(LengthNext)

\* ---- concurrent tasks, each draining a result set of two rows in batches of one
PairCommands == {Command(TRUE, <<"mapping", "mapping">>, a) : a \in BOOLEAN}

PairNext ==
    \/ \E t \in Tasks : Submit(t, PairCommands, {NoLoop}, {1}) /\ UNCHANGED <<wrapVars, syncVars, modeVars, fnVars, bootVars, poolVars>>
    \/ \E t \in Tasks : Connect(t) /\ UNCHANGED <<wrapVars, syncVars, modeVars, fnVars, bootVars, poolVars>>
    \/ \E t \in Tasks : Execute(t) /\ UNCHANGED <<wrapVars, syncVars, modeVars, fnVars, bootVars, poolVars>>
    \/ \E t \in Tasks : Fetch(t) /\ UNCHANGED <<wrapVars, syncVars, modeVars, fnVars, bootVars, poolVars>>
    \/ \E t \in Tasks : ParseRow(t) /\ UNCHANGED <<wrapVars, syncVars, modeVars, fnVars, bootVars, poolVars>>
    \/ \E t \in Tasks : AwaitRow(t) /\ UNCHANGED <<wrapVars, syncVars, modeVars, fnVars, bootVars, poolVars>>

SpecPair == Init /\ [][PairNext]_vars

\* ---- successive acquisitions of the pool, from any loops
PoolNext ==
    \/ Acquire /\ UNCHANGED <<wrapVars, syncVars, modeVars, fnVars, bootVars>>

SpecPool == Init /\ [][PoolNext]_vars

\* ---- one command drained alone, its converter giving every kind of value:
\* a mapping, None, 0, the empty string, the empty mapping
AllRowKinds == RowKinds \cup {"empty", "no_keys"}

KindCommands ==
    {Command(TRUE, rows, a) : rows \in SeqsUpTo(AllRowKinds, MaxBatch + 1), a \in BOOLEAN}

KindNext ==
    \/ Submit(1, KindCommands, {NoLoop}, 1..MaxBatch) /\ UNCHANGED <<wrapVars, syncVars, modeVars, fnVars, bootVars, poolVars>>
    \/ Connect(1) /\ UNCHANGED <<wrapVars, syncVars, modeVars, fnVars, bootVars, poolVars>>
    \/ Execute(1) /\ UNCHANGED <<wrapVars, syncVars, modeVars, fnVars, bootVars, poolVars>>
    \/ Fetch(1) /\ UNCHANGED <<wrapVars, syncVars, modeVars, fnVars, bootVars, poolVars>>
    \/ ParseRow(1) /\ UNCHANGED <<wrapVars, syncVars, modeVars, fnVars, bootVars, poolVars>>
    \/ AwaitRow(1) /\ UNCHANGED <<wrapVars, syncVars, modeVars, fnVars, bootVars, poolVars>>

SpecKinds == Init /\ [][KindNext]_vars

\* ---- one call of exception_wrapper on every input
WrapInit == WrapStart /\ ExecInit /\ SyncIdle /\ ModeIdle /\ FnIdle /\ BootIdle

WrapNext == WrapCall /\ UNCHANGED <<execVars, syncVars, modeVars, fnVars, bootVars, poolVars>>

SpecWrap == WrapInit /\ [][WrapNext]_vars

\* ---- run_sync called from outside the loop, and from a task inside it
SpecSync == Init /\ [][SyncNext]_vars

\* ---- the pool under fair scheduling: the loop runs every callback that is ready
FairSpec == Spec /\ WF_vars(Next)

ModeInit ==
    /\ ExecInit /\ WrapIdle /\ SyncIdle /\ FnIdle /\ BootIdle
    /\ db \in Databases
    /\ mode = [t \in Tasks |-> "none"]
    /\ given = [t \in Tasks |-> Nothing]

ModeNext ==
    \/ \E t \in ModePair, async \in BOOLEAN :
            execute_command(t, async) /\ UNCHANGED <<wrapVars, fnVars, bootVars, poolVars>>
    \/ \E t \in ModePair : ModeConnect(t)
    \/ \E t \in ModePair : ModeExecute(t)
    \/ \E t \in ModePair : ModeFetch(t)
    \/ \E t \in ModePair : ModeParseRow(t)
    \/ \E t \in ModePair : ModeAwaitRow(t)
    \/ LoopTurn /\ UNCHANGED <<wrapVars, execVars, modeVars, fnVars, bootVars, poolVars>>
    \/ RunCallback /\ UNCHANGED <<wrapVars, execVars, modeVars, fnVars, bootVars, poolVars>>
    \/ ModeFinish

\* ---- one command run in both modes on one database state
SpecMode == ModeInit /\ [][ModeNext]_vars

\* ---- one call of a method of SQLQueryBuilder on every input
SqlInit == ExecInit /\ WrapIdle /\ SyncIdle /\ ModeIdle /\ FnStart(SqlCalls \cup UpdateCalls) /\ BootIdle

SqlNext ==
    \/ SqlGet /\ UNCHANGED <<wrapVars, execVars, syncVars, modeVars, bootVars, poolVars>>
    \/ SqlDelete /\ UNCHANGED <<wrapVars, execVars, syncVars, modeVars, bootVars, poolVars>>
    \/ SqlGetById /\ UNCHANGED <<wrapVars, execVars, syncVars, modeVars, bootVars, poolVars>>
    \/ SqlDeleteById /\ UNCHANGED <<wrapVars, execVars, syncVars, modeVars, bootVars, poolVars>>
    \/ SqlUpdate /\ UNCHANGED <<wrapVars, execVars, syncVars, modeVars, bootVars, poolVars>>

SpecSql == SqlInit /\ [][SqlNext]_vars

\* ---- one call of a method of QueryBuilder on every input
QueryInit ==
    /\ ExecInit /\ WrapIdle /\ SyncIdle /\ ModeIdle /\ BootIdle
    /\ (FnStart(ClauseCalls) \/ FnStart(PkCalls) \/ FnStart(DictCalls))

QueryNext ==
    \/ BuildClause /\ UNCHANGED <<wrapVars, execVars, syncVars, modeVars, bootVars, poolVars>>
    \/ BuildPkClause /\ UNCHANGED <<wrapVars, execVars, syncVars, modeVars, bootVars, poolVars>>
    \/ ColumnsToDict /\ UNCHANGED <<wrapVars, execVars, syncVars, modeVars, bootVars, poolVars>>

SpecQuery == QueryInit /\ [][QueryNext]_vars

\* ---- one call of get_by_pk or of save on every input and reply
EntityInit == ExecInit /\ WrapIdle /\ SyncIdle /\ ModeIdle /\ FnStart(EntityCalls) /\ BootIdle

EntityNext ==
    \/ GetByPk /\ UNCHANGED <<wrapVars, execVars, syncVars, modeVars, bootVars, poolVars>>
    \/ Save /\ UNCHANGED <<wrapVars, execVars, syncVars, modeVars, bootVars, poolVars>>
    \/ Delete /\ UNCHANGED <<wrapVars, execVars, syncVars, modeVars, bootVars, poolVars>>
    \/ Update /\ UNCHANGED <<wrapVars, execVars, syncVars, modeVars, bootVars, poolVars>>

SpecEntity == EntityInit /\ [][EntityNext]_vars

\* ---- the bootstrap run on every catalog, up to MaxRuns times in a row
BootInit == ExecInit /\ WrapIdle /\ SyncIdle /\ ModeIdle /\ FnIdle /\ BootStart

SpecBoot == BootInit /\ [][BootNext]_vars

\* ---- enable_patches, then one statement built and compiled twice
PatchInit ==
    /\ ExecInit /\ WrapIdle /\ SyncIdle /\ ModeIdle /\ BootIdle
    /\ fn_pc = "idle" /\ fn_in = <<>> /\ fn_out = <<>>
    /\ PatchStart

SpecPatch == PatchInit /\ [][PatchNext]_vars

-----------------------------------------------------------------------------
(* Claims about the batch drain (SpecDrain) *)

\* the list of converted rows of the cursor of task t, in cursor order
Converted(t, command) ==
    [i \in 1..Len(command.rows) |-> row_parser(command.rows[i], <<t, i>>)]

AllTruthy(t, command) ==
    \A i \in 1..Len(command.rows) : Truthy(Converted(t, command)[i])

\* floor(n/b) batches of b rows, then the remainder if any, then one empty batch
RECURSIVE ExpectedBatches(_, _)
ExpectedBatches(n, b) ==
    IF n = 0 THEN <<0>>
    ELSE IF n < b THEN <<n, 0>>
    ELSE <<b>> \o ExpectedBatches(n - b, b)

\* C1: a finished call on a result set of N rows whose converted rows are all
\* truthy has fetched floor(N/B) batches of B rows, then the remainder if any,
\* then one empty batch, and its handle holds the N converted rows in cursor
\* order, none lost, duplicated or reordered.
C1_DrainInCursorOrder ==
    \A t \in Tasks :
        LET tk == task[t] IN
        (tk.pc = "done" /\ tk.command.has_results /\ AllTruthy(t, tk.command))
            => /\ tk.batches = ExpectedBatches(Len(tk.command.rows), tk.batch_size)
               /\ tk.handle = Return(Converted(t, tk.command))

\* B = 2 and N = 5: the batches are [2, 2, 1, 0] and 5 rows are returned
C1_Witness ==
    /\ task[1].pc = "done"
    /\ task[1].batch_size = 2
    /\ Len(task[1].command.rows) = 5
    /\ AllTruthy(1, task[1].command)
    /\ task[1].batches = <<2, 2, 1, 0>>
    /\ Len(task[1].handle.value) = 5

\* a call that ended by leaving the batch loop of a statement with a result set
Drained(tk) == tk.pc = "done" /\ tk.command.has_results

\* C24 as stated: the loop ends, at the first empty batch and no earlier, and
\* a result of N rows is drained by exactly floor(N/B) + 1 fetches.
C24_FloorPlusOneFetches ==
    Drained(task[1]) => task[1].fetches = (Len(task[1].command.rows) \div task[1].batch_size) + 1

\* C24 amended: every call that was started ends, and a call that left the batch
\* loop left it at its first empty batch: N rows are drained by floor(N/B)
\* full batches, one batch of the remainder when B does not divide N, and
\* one empty batch, which is ceil(N/B) + 1 fetches.
C24_DrainTerminates ==
    /\ [](Drained(task[1]) =>
            LET tk == task[1]
                n == Len(tk.command.rows)
                b == tk.batch_size
            IN  /\ tk.batches = ExpectedBatches(n, b)
                /\ tk.fetches = Len(tk.batches)
                /\ tk.fetches = (n \div b) + (IF n % b = 0 THEN 1 ELSE 2)
                /\ \A i \in 1..Len(tk.batches) : (tk.batches[i] = 0) <=> (i = Len(tk.batches)))
    /\ (task[1].pc # "idle") ~> (task[1].pc \in {"done", "failed"})

\* N = 5 and B = 2: four fetches, where floor(5/2) + 1 is three
C24_Witness ==
    /\ Drained(task[1])
    /\ Len(task[1].command.rows) = 5
    /\ task[1].batch_size = 2
    /\ task[1].fetches = 4

\* C25: a row whose converter result is falsy (None, the empty mapping, 0,
\* the empty string) is not collected, the result of a converter that gives
\* a future being tested after the future is awaited: the list returned is
\* the subsequence of the truthy converter results in cursor order, no
\* longer than the number of rows fetched.
C25_FalsyResultsNotCollected ==
    \A t \in Tasks :
        LET tk == task[t] IN
        (tk.pc = "done" /\ tk.command.has_results)
            => /\ tk.handle = Return(SelectSeq(Converted(t, tk.command), Truthy))
               /\ Len(tk.handle.value) <= tk.pos
               /\ tk.pos = Len(tk.command.rows)

\* a converter that gives futures: of the rows None, a mapping and the
\* empty mapping, the mapping alone is returned
C25_Witness ==
    /\ task[1].pc = "done"
    /\ task[1].command.async_parser
    /\ task[1].command.rows = <<"none", "mapping", "no_keys">>
    /\ task[1].handle = Return(<<row_parser("mapping", <<1, 2>>)>>)

C25_WitnessEmptyString ==
    /\ task[1].pc = "done"
    /\ ~task[1].command.async_parser
    /\ task[1].command.rows = <<"empty", "zero">>
    /\ task[1].handle = Return(<<>>)

NoResultsError == Exc("ProgrammingError", <<NoResultsToFetch>>)

\* C3: when the statement has no result set and the first batch fetch raises
\* the driver error 'no results to fetch', the call does not fail: it is done
\* after that one fetch with an empty list, as is a query of zero rows.
C3_NoResultSetGivesEmptyList ==
    \A t \in Tasks :
        LET tk == task[t] IN
        /\ (tk.raised_at = "fetch" /\ tk.raised = NoResultsError)
              => (tk.pc = "done" /\ tk.fetches = 1 /\ tk.handle = Return(<<>>))
        /\ (tk.pc = "done" /\ tk.command.has_results /\ tk.command.rows = <<>>)
              => (tk.fetches = 1 /\ tk.handle = Return(<<>>))

C3_Witness ==
    /\ ~task[1].command.has_results
    /\ task[1].raised = NoResultsError
    /\ task[1].pc = "done"
    /\ task[1].handle = Return(<<>>)

\* the one masked error: 'no results to fetch' raised by a batch fetch
IsMasked(tk) == tk.raised_at = "fetch" /\ tk.raised = NoResultsError

\* C4: whichever step raises it (connecting, executing, a batch fetch, the row
\* converter), an error other than the masked one is the failure of the
\* handle, unchanged, and the handle holds no list, not even a partial one.
C4_OtherErrorsPropagate ==
    \A t \in Tasks :
        LET tk == task[t] IN
        (tk.raised # NoExc /\ ~IsMasked(tk))
            => /\ tk.pc = "failed"
               /\ tk.handle.kind = "raise"
               /\ tk.handle.exc = tk.raised
               /\ tk.handle.value = <<>>

\* the converter fails after rows were already collected
C4_Witness ==
    /\ task[1].raised_at = "converter"
    /\ task[1].ret_values # <<>>
    /\ task[1].handle = Raise(task[1].raised)

C4_WitnessFetch ==
    /\ task[1].raised_at = "fetch"
    /\ task[1].raised = Exc("ProgrammingError", << <<"disk full">> >>)
    /\ task[1].handle = Raise(task[1].raised)

-----------------------------------------------------------------------------
(* Claims about exception_wrapper (SpecWrap) *)

\* the exception is one the wrapper is asked to suppress: an instance of the
\* given type whose message (its first argument, as text, without the blanks
\* around it) satisfies the predicate
Matches(e, exception_type, message_validator) ==
    /\ IsInstance(e, exception_type)
    /\ Len(e.args) > 0
    /\ Validate(message_validator, strip(e.args[1]))

\* C2: the wrapper suppresses an exception, returning an empty list, iff it is
\* an instance of the given type and the predicate holds on its message; every
\* other exception (an exception without a message argument too) reaches the
\* caller unchanged, and a result is returned unchanged.
C2_SuppressesOnlyMatching ==
    wrap_pc = "done" =>
        LET outcome == wrap_in.outcome IN
        IF outcome.kind = "return" THEN wrap_out = Return(outcome.value)
        ELSE IF Matches(outcome.exc, wrap_in.exception_type, wrap_in.message_validator)
             THEN wrap_out = Return(<<>>)
             ELSE wrap_out = Raise(outcome.exc)

-----------------------------------------------------------------------------
(* Claims about the pool (Spec, FairSpec) *)

Acquired == {t \in Tasks : task[t].acquired # "none"}

\* C29: commands run concurrently by interleaved tasks do not interfere with
\* each other's results: whatever the interleaving of their connection
\* acquisitions, executions and batch fetches, the list a command returns
\* holds the converted rows of its own cursor, all of them, in that cursor's
\* order, and no row of another command.
C29_NoInterference ==
    \A t \in Tasks :
        LET tk == task[t] IN
        tk.pc = "done" =>
            /\ tk.handle.kind = "return"
            /\ Len(tk.handle.value) = Len(tk.command.rows)
            /\ \A i \in 1..Len(tk.handle.value) :
                  /\ tk.handle.value[i].row = <<t, i>>
                  /\ tk.handle.value[i] = row_parser(tk.command.rows[i], <<t, i>>)
            /\ \A u \in Tasks \ {t} :
                  \A i \in 1..Len(tk.handle.value) : tk.handle.value[i].row[1] # u

\* task 2 was between its two fetches when task 1 started, and task 1 has
\* ended before task 2 fetched its second row: each has its own rows
C29_Witness ==
    /\ task[1].pc = "done"
    /\ Len(task[1].handle.value) = 2
    /\ task[1].acquired = "reused"
    /\ task[2].acquired = "created"
    /\ task[2].pc = "fetching"
    /\ task[2].pos = 1
    /\ Len(task[2].ret_values) = 1

C26_WitnessFirst ==
    /\ Len(acquisitions) = 1
    /\ acquisitions[1].io_loop = NoLoop
    /\ acquisitions[1].current = "loop_a"
    /\ pools[pool_cached].ioloop = "loop_a"

\* C5: over any sequence of acquisitions at most one pool is constructed: one
\* acquisition creates and caches it, every other one constructs nothing and
\* gets that cached pool; the acquisitions themselves open no connection set
\* (the only connects are the one get_connection makes per call).
C5_AtMostOnePool ==
    /\ Len(pools) <= 1
    /\ (pool_cached = NoPool) <=> (pools = <<>>)
    /\ Cardinality({t \in Acquired : task[t].acquired = "created"}) <= 1
    /\ \A t \in Acquired : task[t].pool = pool_cached
    /\ \A p \in 1..Len(pools) : pools[p].connects = Cardinality(Acquired)

C5_Witness ==
    /\ \E t \in Tasks : task[t].acquired = "created"
    /\ \E t \in Tasks : task[t].acquired = "reused" /\ task[t].pool = pool_cached
    /\ Len(pools) = 1

InFlight == {t \in Tasks : task[t].pc \notin {"idle", "done", "failed"}}

C7_PoolRecreatedAfterFailure ==
    \A t \in Acquired : task[t].saw_failure => task[t].acquired = "created"

\* C7, amended: a call whose connect failed is over (no reconnect, no retry:
\* it never executes or fetches), and a later call's acquisition creates
\* nothing: it reuses the cached pool, the very one whose connect failed.
C7_FailedPoolReused ==
    /\ \A t \in Tasks :
         task[t].raised_at = "connect"
            => (task[t].pc = "failed" /\ task[t].fetches = 0
                    /\ task[t].handle = Raise(task[t].raised))
    /\ \A t \in Acquired :
         task[t].saw_failure
            => (task[t].acquired = "reused" /\ task[t].pool \in failed_pools
                    /\ task[t].pool = pool_cached)

C7_Witness ==
    \E t, u \in Tasks :
        /\ task[t].raised_at = "connect"
        /\ task[u].saw_failure
        /\ task[u].acquired = "reused"
        /\ task[u].pool = task[t].pool

-----------------------------------------------------------------------------
(* Claims about the Sync Bridge (SpecSync) *)

\* the current call got past its argument test and entered the loop's start()
EnteredLoop == rs.started

\* C8: a run_sync call whose loop run is over (no task having called run_sync
\* inside the loop, the documented precondition) ends only once its handle is
\* resolved: the loop was stopped by the callback the call added to that
\* handle and by no other, and the call returns the handle's value or raises
\* the exception the handle failed with.
C8_ReturnsWhenHandleResolved ==
    (EnteredLoop /\ ~inner.made)
        => /\ (rs.pc = "in_loop" /\ ~loop_running)
                 => futs[rs.handle].outcome.kind # "pending"
           /\ rs.pc \in {"returned", "raised"}
                 => /\ futs[rs.handle].outcome.kind # "pending"
                    /\ rs.out = futs[rs.handle].outcome
                    /\ stopped_by = StopCallback(calls, rs.handle)
                    /\ (rs.pc = "returned") <=> (rs.out.kind = "return")

\* the second call made waited in the loop for a pending handle that then failed
C8_Witness ==
    /\ calls = 2
    /\ ~inner.made
    /\ rs.invoked
    /\ rs.func = Future("io", Pending)
    /\ rs.pc = "raised"
    /\ rs.out = futs[rs.handle].outcome
    /\ rs.out.exc.type = "OperationalError"

\* C9: with neither a callable nor a future, run_sync raises
\* MissingArgsException('Missing function arguments: Callable or Future')
\* before it makes a handle, adds a callback or starts the loop; with both,
\* the future is the handle and the callable is not invoked.
C9_MissingArguments ==
    rs.pc # "idle" =>
        /\ ArgsMissing(rs.func, rs.future)
              => /\ rs.pc = "raised"
                 /\ rs.out = Raise(Exc("MissingArgsException",
                         << <<"Missing function arguments: ", "Callable or Future">> >>))
                 /\ ~rs.started /\ ~rs.registered /\ rs.handle = 0
                 /\ calls = 1 => (futs = <<>> /\ loop_queue = <<>> /\ ~loop_running)
        /\ (rs.func # NoFunc /\ rs.future # NoFuture)
              => /\ ~rs.invoked
                 /\ futs[rs.handle].kind = rs.future.kind

C9_Witness ==
    /\ rs.pc = "raised"
    /\ ArgsMissing(rs.func, rs.future)
    /\ rs.out.exc.type = "MissingArgsException"
    /\ ~loop_running

\* a task inside the loop driven by the current call has called run_sync
Reentered == inner.made /\ inner.during = calls

-----------------------------------------------------------------------------
(* Claims about the two modes of execute_command (SpecMode) *)

\* an outcome without the identity of the call that produced it: a row is
\* named by its position in the cursor
Untask(o) ==
    [o EXCEPT !.value = [i \in DOMAIN o.value |->
                            [o.value[i] EXCEPT !.row = <<0, o.value[i].row[2]>>]]]

Finished(t) == task[t].pc \in {"done", "failed"}

\* C11: on one command and one database state, a call in asynchronous mode
\* gives its caller the handle while it is still pending; a call in
\* synchronous mode gives no handle but, once it returns, the outcome of its
\* own finished handle; and that outcome, a list or an error, is the outcome
\* of the handle of the asynchronous call.
C11_SyncEqualsAsync ==
    /\ \A t \in ModePair :
         mode[t] = "async" => given[t] = [as |-> "handle", outcome |-> Pending]
    /\ \A t \in ModePair :
         mode[t] = "sync"
            => /\ given[t].as \in {"nothing", "result"}
               /\ given[t].as = "result"
                    => Finished(t) /\ given[t].outcome = task[t].handle
    /\ \A t1, t2 \in ModePair :
         (mode[t1] = "async" /\ Finished(t1) /\ mode[t2] = "sync" /\ given[t2].as = "result")
            => Untask(given[t2].outcome) = Untask(task[t1].handle)

\* both calls are over: a list of two rows fetched in two batches
C11_Witness ==
    /\ mode[1] = "async" /\ mode[2] = "sync"
    /\ task[1].pc = "done"
    /\ given[2].as = "result"
    /\ given[2].outcome.kind = "return"
    /\ Len(given[2].outcome.value) = 2
    /\ task[2].batches = <<1, 1, 0>>

\* both calls are over: the second fetch failed in both
C11_WitnessError ==
    /\ mode[1] = "sync" /\ mode[2] = "async"
    /\ task[2].pc = "failed"
    /\ given[1].as = "result"
    /\ given[1].outcome.kind = "raise"
    /\ task[1].raised_at = "fetch"
    /\ task[1].fetches = 2

-----------------------------------------------------------------------------
(* Claims about the Idempotency Patcher (SpecPatch) *)

\* the keyword phrase of each of the six kinds, and its condition
KeywordPhrase(element) ==
    CASE element = CreateTable  -> <<"CREATE", "TABLE">>
      [] element = CreateIndex  -> <<"CREATE", "INDEX">>
      [] element = CreateSchema -> <<"CREATE", "SCHEMA">>
      [] element = DropTable    -> <<"DROP", "TABLE">>
      [] element = DropIndex    -> <<"DROP", "INDEX">>
      [] element = DropSchema   -> <<"DROP", "SCHEMA">>

ExistCondition(element) ==
    IF element \in {CreateTable, CreateIndex, CreateSchema}
    THEN <<"IF", "NOT", "EXISTS">> ELSE <<"IF", "EXISTS">>

\* the text with every occurrence of the phrase followed by the condition
RECURSIVE WithCondition(_, _, _)
WithCondition(text, phrase, condition) ==
    IF text = <<>> THEN <<>>
    ELSE IF IsPrefix(phrase, text)
         THEN phrase \o condition
                \o WithCondition(SubSeq(text, Len(phrase) + 1, Len(text)), phrase, condition)
         ELSE <<Head(text)>> \o WithCondition(Tail(text), phrase, condition)

Contains(text, phrase) ==
    \E i \in 0..(Len(text) - Len(phrase)) : SubSeq(text, i + 1, i + Len(phrase)) = phrase

\* C12: every compilation of a statement of one of the six kinds whose build
\* condition is set gives the unconditional text in which the keyword phrase
\* of the kind is followed by IF NOT EXISTS (Create kinds) or IF EXISTS (Drop
\* kinds), and two compilations give the same text.
C12_FlaggedCompileInjects ==
    (stmt.element \in ELEMENTS_TO_PATCH /\ stmt.build_condition = "true")
        => /\ \A i \in 1..Len(compiled) :
                compiled[i] = WithCondition(stmt.text, KeywordPhrase(stmt.element),
                                            ExistCondition(stmt.element))
           /\ Len(compiled) = 2 => compiled[1] = compiled[2]

\* 'CREATE TABLE UNIQUE' compiled twice: 'CREATE TABLE IF NOT EXISTS UNIQUE'
C12_Witness ==
    /\ stmt = Statement(CreateTable, <<"CREATE", "TABLE", "UNIQUE">>, "true")
    /\ compiled = << <<"CREATE", "TABLE", "IF", "NOT", "EXISTS", "UNIQUE">>,
                     <<"CREATE", "TABLE", "IF", "NOT", "EXISTS", "UNIQUE">> >>

\* 'DROP INDEX UNIQUE' becomes 'DROP INDEX IF EXISTS UNIQUE'
C12_WitnessDrop ==
    /\ stmt = Statement(DropIndex, <<"DROP", "INDEX", "UNIQUE">>, "true")
    /\ Len(compiled) = 2
    /\ compiled[2] = <<"DROP", "INDEX", "IF", "EXISTS", "UNIQUE">>

\* the text with the first occurrence of the phrase alone followed by the
\* condition, every later occurrence left as it was
RECURSIVE FirstWithCondition(_, _, _)
FirstWithCondition(text, phrase, condition) ==
    IF text = <<>> THEN <<>>
    ELSE IF IsPrefix(phrase, text)
         THEN phrase \o condition \o SubSeq(text, Len(phrase) + 1, Len(text))
         ELSE <<Head(text)>> \o FirstWithCondition(Tail(text), phrase, condition)

Occurrences(text, phrase) ==
    Cardinality({i \in 0..(Len(text) - Len(phrase)) :
                    SubSeq(text, i + 1, i + Len(phrase)) = phrase})

\* C27: when the build-condition flag is set, the patcher performs exactly
\* one substitution on the unconditional text: of several occurrences of the
\* keyword phrase the first alone is replaced, every later one is left as it
\* was.
C27_OnlyFirstOccurrence ==
    (stmt.element \in ELEMENTS_TO_PATCH /\ stmt.build_condition = "true")
        => \A i \in 1..Len(compiled) :
               compiled[i] = FirstWithCondition(stmt.text, KeywordPhrase(stmt.element),
                                                ExistCondition(stmt.element))

\* the text 'CREATE TABLE CREATE TABLE' compiled with the flag set: both
\* occurrences carry the condition
C27_BothReplaced ==
    /\ stmt = Statement(CreateTable, <<"CREATE", "TABLE", "CREATE", "TABLE">>, "true")
    /\ Occurrences(stmt.text, <<"CREATE", "TABLE">>) = 2
    /\ Len(compiled) >= 1
    /\ compiled[1] = <<"CREATE", "TABLE", "IF", "NOT", "EXISTS",
                       "CREATE", "TABLE", "IF", "NOT", "EXISTS">>

\* C13: when patches were enabled without if_always, every compilation of a
\* statement whose build condition is unset, or set to False by
\* check_first(False), gives exactly the text of the unpatched compiler.
C13_UnflaggedCompileUnchanged ==
    (~enabling.if_always /\ stmt.build_condition \in {"unset", "false"})
        => \A i \in 1..Len(compiled) : compiled[i] = stmt.text

\* a patched kind, a text with the keyword phrase, check_first(False)
C13_Witness ==
    /\ ~enabling.if_always
    /\ stmt = Statement(CreateTable, <<"CREATE", "TABLE", "UNIQUE">>, "false")
    /\ Patched(CreateTable)
    /\ compiled = << <<"CREATE", "TABLE", "UNIQUE">>, <<"CREATE", "TABLE", "UNIQUE">> >>

C13_WitnessUnset ==
    /\ ~enabling.if_always
    /\ stmt = Statement(DropTable, <<"DROP", "TABLE", "UNIQUE">>, "unset")
    /\ Patched(DropTable)
    /\ Len(compiled) = 2

\* a type name that says neither Create nor Drop, or no name at all
Unclassifiable(element) ==
    ~(\E i \in 1..Len(element) : element[i] \in {"Create", "Drop"})

\* C14: a type that cannot be classified, once enable_patches has come to
\* it, has made enable_patches fail with the error of the constructor and has
\* no compile function registered; whatever is registered has its variant, so
\* no compilation meets a patcher without one.
C14_FailsAtRegistration ==
    /\ \A element \in enabling.statements \ enabling.pending :
         Unclassifiable(element)
            => /\ enabling.state = "failed"
               /\ enabling.error \in {OperationUnknown, NoVariantAttribute}
               /\ ~Patched(element)
    /\ \A q \in registry : q.variant \in {if_exists, if_not_exists}
    /\ enabling.state = "enabled"
            => \A element \in enabling.statements : ~Unclassifiable(element)

\* AlterTable made registration fail; a registered kind compiles afterwards
C14_Witness ==
    /\ AlterTable \in enabling.statements \ enabling.pending
    /\ enabling.state = "failed"
    /\ enabling.error = NoVariantAttribute
    /\ stmt.element = CreateTable /\ Patched(CreateTable)
    /\ stmt.build_condition = "true"
    /\ Len(compiled) = 1

C14_WitnessUnnamed ==
    /\ Unnamed \in enabling.statements \ enabling.pending
    /\ enabling.state = "failed"
    /\ enabling.error = OperationUnknown

-----------------------------------------------------------------------------
(* Claims about SQLQueryBuilder (SpecSql) *)

\* the names of the terms `name = %(name)s` of a WHERE clause, in text order
RECURSIVE TermNames(_)
TermNames(text) ==
    IF Len(text) < 3 THEN <<>>
    ELSE IF text[1].t = "name" /\ text[2] = Lit("=") /\ text[3] = Placeholder(text[1].name)
         THEN <<text[1].name>> \o TermNames(SubSeq(text, 4, Len(text)))
         ELSE TermNames(Tail(text))

Ascending(names) == \A i \in 1..(Len(names) - 1) : LexLess(names[i], names[i + 1])

\* the one ascending arrangement of a set of names
InOrder(S) ==
    CHOOSE names \in [1..Cardinality(S) -> S] :
        /\ {names[i] : i \in 1..Len(names)} = S
        /\ Ascending(names)

\* the text of the claim for a verb, a condition key set: the verb, the
\* table, then one term per key in ascending order, joined with AND
ClaimedText(verb, S) ==
    <<Lit(verb), Name(test_schema), Lit("."), Name(test_table), Lit("WHERE")>>
        \o join(Lit(" AND "), [i \in 1..Cardinality(S) |-> ParamTerm(InOrder(S)[i])])
        \o <<Lit(";")>>

Verb(fn) == IF fn \in {"get_element", "get_element_by_id"} THEN "SELECT * FROM" ELSE "DELETE FROM"

\* the condition mapping of the call
Condition(call) ==
    IF call.fn \in {"get_element", "delete_element"} THEN call.cond_dict
    ELSE <<Item(call.id_column, call.id_value)>>

\* C15: a finished call of get_element or delete_element has given the text
\* with one term `col = %(col)s` per key of the condition, the keys ascending
\* lexicographically and the terms joined with AND, a function of the key set
\* alone, with no value in it, and the condition mapping itself as the
\* parameters; a by-id call has given what the general call gives on the
\* mapping {id_column: id_value}.
C15_ConditionSortedAndParameterised ==
    fn_pc = "done" /\ fn_in.fn \in {"get_element", "delete_element",
                                   "get_element_by_id", "delete_element_by_id"}
        => /\ fn_out.text = ClaimedText(Verb(fn_in.fn), KeySet(Condition(fn_in)))
           /\ fn_out.params = Condition(fn_in)
           /\ \A i \in 1..Len(fn_out.text) : fn_out.text[i].t # "value"
           /\ TermNames(fn_out.text) = InOrder(KeySet(Condition(fn_in)))

\* {'title': ..., 'id': ...}, inserted in this order: `id = %(id)s AND title = %(title)s`
C15_Witness ==
    /\ fn_pc = "done"
    /\ fn_in.fn = "delete_element"
    /\ Keys(fn_in.cond_dict) = << <<"t", "i", "t", "l", "e">>, id >>
    /\ TermNames(fn_out.text) = << id, <<"t", "i", "t", "l", "e">> >>
    /\ fn_out.params = fn_in.cond_dict

C15_WitnessById ==
    /\ fn_pc = "done"
    /\ fn_in.fn = "get_element_by_id"
    /\ fn_in.id_column = id
    /\ fn_out = get_element(test_schema, test_table, <<Item(id, fn_in.id_value)>>)

\* the text of the claim for an update: the SET terms of the value keys and
\* the WHERE terms of the condition keys, each list ascending
ClaimedUpdate(V, C) ==
    <<Lit("UPDATE"), Name(test_schema), Lit("."), Name(test_table), Lit("SET")>>
        \o join(Lit(", "), [i \in 1..Cardinality(V) |-> ParamTerm(InOrder(V)[i])])
        \o <<Lit("WHERE")>>
        \o join(Lit(" AND "), [i \in 1..Cardinality(C) |-> ParamTerm(InOrder(C)[i])])
        \o <<Lit(";")>>

\* the value a mapping gives for a key
ValueOf(dict, k) == dict[Get(dict, k)].v

\* C23: update_element builds the SET list from the sorted value keys and the
\* WHERE list from the sorted condition keys, and returns as parameters the
\* union of the two mappings where, on a key of both, the value mapping's
\* value wins; the caller's condition and value mappings are left unmodified.
C23_UpdateMergesParameters ==
    fn_pc = "done" /\ fn_in.fn = "update_element"
        => /\ fn_out.text = ClaimedUpdate(KeySet(fn_in.values), KeySet(fn_in.cond_dict))
           /\ KeySet(fn_out.params) = KeySet(fn_in.cond_dict) \cup KeySet(fn_in.values)
           /\ Distinct(Keys(fn_out.params))
           /\ \A k \in KeySet(fn_out.params) :
                ValueOf(fn_out.params, k) =
                    IF HasKey(fn_in.values, k) THEN ValueOf(fn_in.values, k)
                    ELSE ValueOf(fn_in.cond_dict, k)
           /\ fn_out.cond_dict = fn_in.cond_dict
           /\ fn_out.values = fn_in.values

\* a key of both mappings: the parameters hold the value mapping's value
C23_Witness ==
    /\ fn_pc = "done"
    /\ fn_in.fn = "update_element"
    /\ HasKey(fn_in.cond_dict, id) /\ HasKey(fn_in.values, id)
    /\ Len(fn_in.cond_dict) = 2 /\ Len(fn_in.values) = 2
    /\ ~Ascending(Keys(fn_in.values))
    /\ ValueOf(fn_out.params, id) = "a test title"
    /\ fn_out.cond_dict = fn_in.cond_dict

-----------------------------------------------------------------------------
(* Claims about QueryBuilder (SpecQuery) *)

\* the names that occur in a text, in text order
RECURSIVE TextNames(_)
TextNames(text) ==
    IF text = <<>> THEN <<>>
    ELSE IF Head(text).t = "name" THEN <<Head(text).name>> \o TextNames(Tail(text))
    ELSE TextNames(Tail(text))

SetOf(seq) == {seq[i] : i \in 1..Len(seq)}

\* C16, as claimed: the terms of the compiled clause of build_clause are in
\* the ascending order of the column names, in whatever order the columns
\* were passed.
C16_TermsSortedByName ==
    (fn_pc = "done" /\ fn_in.fn = "build_clause" /\ fn_out.built.kind = "return")
        => TextNames(fn_out.text) = InOrder(SetOf(fn_in.columns))

\* what the code does: the terms are in the order of the columns passed
C16_TermsInColumnOrder ==
    (fn_pc = "done" /\ fn_in.fn = "build_clause" /\ fn_out.built.kind = "return")
        => TextNames(fn_out.text) = fn_in.columns

\* the columns passed as title, id: `title = '3' AND id IS NULL`
C16_Witness ==
    /\ fn_pc = "done" /\ fn_in.fn = "build_clause"
    /\ fn_in.columns = << <<"t", "i", "t", "l", "e">>, id >>
    /\ fn_out.built.kind = "return"
    /\ fn_out.text = <<Name(<<"t", "i", "t", "l", "e">>), Lit("="), Literal("3"),
                       Lit("AND"), Name(id), Lit("IS NULL")>>

\* the names of a message 'Missing primary key fields: a, b'
RECURSIVE SplitNames(_, _)
SplitNames(msg, name) ==
    IF msg = <<>> THEN (IF name = <<>> THEN {} ELSE {name})
    ELSE IF Head(msg) = ", " THEN {name} \cup SplitNames(Tail(msg), <<>>)
    ELSE SplitNames(Tail(msg), Append(name, Head(msg)))

MissingNamed(e) == SplitNames(Tail(e.args[1]), <<>>)

\* C17: a finished call of build_pk_clause on a key P with the names K
\* supplied has raised PartialPrimaryKeyException exactly when P \ K is not
\* empty, the exception naming exactly the names of P \ K and no clause being
\* built; otherwise it has returned an AND clause with one comparison per
\* column of P, in the order of the key, each with the value supplied.
C17_PartialPrimaryKey ==
    (fn_pc = "done" /\ fn_in.fn = "build_pk_clause")
        => LET P == SetOf(fn_in.primary_key)
               K == KeySet(fn_in.kwargs)
           IN  /\ (fn_out.kind = "raise") = (P \ K # {})
               /\ fn_out.kind = "raise"
                    => /\ fn_out.exc.type = "PartialPrimaryKeyException"
                       /\ MissingNamed(fn_out.exc) = P \ K
                       /\ fn_out.value = <<>>
               /\ fn_out.kind = "return"
                    => /\ fn_out.value.comparator = "AND"
                       /\ Keys(fn_out.value.terms) = fn_in.primary_key
                       /\ \A i \in 1..Len(fn_in.primary_key) :
                            fn_out.value.terms[i].v
                                = fn_in.kwargs[Get(fn_in.kwargs, fn_in.primary_key[i])].v

\* the key (title, id, a) with only id supplied: title and a are named
C17_Witness ==
    /\ fn_pc = "done" /\ fn_in.fn = "build_pk_clause"
    /\ fn_in.primary_key = << <<"t", "i", "t", "l", "e">>, id, <<"a">> >>
    /\ Keys(fn_in.kwargs) = <<id>>
    /\ fn_out.kind = "raise"
    /\ MissingNamed(fn_out.exc) = { <<"t", "i", "t", "l", "e">>, <<"a">> }

\* the key (title, id) with a, id and title supplied
C17_WitnessFull ==
    /\ fn_pc = "done" /\ fn_in.fn = "build_pk_clause"
    /\ fn_in.primary_key = << <<"t", "i", "t", "l", "e">>, id >>
    /\ KeySet(fn_in.kwargs) = { <<"a">>, id, <<"t", "i", "t", "l", "e">> }
    /\ fn_out.kind = "return"
    /\ Keys(fn_out.value.terms) = fn_in.primary_key

\* the value of an attribute of an object that has it
Attr(obj, name) == obj[Get(obj, name)].v

\* C18: a finished call of columns_to_dict has failed with AttributeError
\* exactly when the object lacks a requested column; otherwise it has
\* returned, with filtering, exactly the requested columns whose value is
\* neither None nor the empty string and, without filtering, all the requested
\* columns, each with the value the object has for it.
C18_ColumnsToDict ==
    (fn_pc = "done" /\ fn_in.fn = "columns_to_dict")
        => LET requested == SetOf(fn_in.columns)
               lacking == requested \ KeySet(fn_in.obj)
           IN  /\ (fn_out.kind = "raise") = (lacking # {})
               /\ fn_out.kind = "raise" => fn_out.exc.type = "AttributeError"
               /\ fn_out.kind = "return"
                    => /\ KeySet(fn_out.value) =
                            IF fn_in.filtered
                            THEN {c \in requested : Attr(fn_in.obj, c) \notin {None, EmptyStr}}
                            ELSE requested
                       /\ Distinct(Keys(fn_out.value))
                       /\ \A i \in 1..Len(fn_out.value) :
                            fn_out.value[i].v = Attr(fn_in.obj, fn_out.value[i].k)

\* filtering drops a None and an empty value and keeps the third
C18_Witness ==
    /\ fn_pc = "done" /\ fn_in.fn = "columns_to_dict"
    /\ fn_in.filtered
    /\ Len(fn_in.columns) = 3
    /\ fn_out.kind = "return"
    /\ \E i, j \in 1..3 : fn_in.obj[i].v = None /\ fn_in.obj[j].v = EmptyStr
    /\ Len(fn_out.value) = 1

C18_WitnessUnfiltered ==
    /\ fn_pc = "done" /\ fn_in.fn = "columns_to_dict"
    /\ ~fn_in.filtered
    /\ Len(fn_in.columns) = 2
    /\ fn_out.kind = "return"
    /\ fn_out.value[1].v = None /\ fn_out.value[2].v = EmptyStr

C18_WitnessLacking ==
    /\ fn_pc = "done" /\ fn_in.fn = "columns_to_dict"
    /\ ~fn_in.filtered
    /\ fn_out.kind = "raise"
    /\ fn_out.exc.type = "AttributeError"

-----------------------------------------------------------------------------
(* Claims about DBEntity (SpecEntity) *)

\* the call of a method of DBEntity has returned or raised
EntityDone(fn) == fn_pc = "done" /\ fn_in.fn = fn

\* a synchronous lookup whose select was run and gave n rows
SyncLookup(n) ==
    /\ EntityDone("get_by_pk")
    /\ ~fn_in.async
    /\ fn_out.command.verb = "select"
    /\ fn_in.reply.kind = "return"
    /\ Len(fn_in.reply.value) = n

\* the exception names the two counts
CarriesCounts(e, received, expected) ==
    /\ e.type = "IncorrectResultSizeException"
    /\ e.args[1][2] = ToString(expected)
    /\ e.args[1][4] = ToString(received)

\* C19: a synchronous get_by_pk returns None when the query gives no row, the
\* single element when it gives exactly one row, and raises
\* IncorrectResultSizeException carrying the received count and the expected
\* count 1 when it gives more than one row; it never returns an element of a
\* result of several rows.
C19_SyncLookupBySize ==
    \A n \in 0..(MaxBatch + 1) :
        SyncLookup(n) =>
            /\ n = 0 => fn_out.out.kind = "return" /\ fn_out.out.value = PyNone
            /\ n = 1 => /\ fn_out.out.kind = "return"
                        /\ fn_out.out.value = Instance(fn_in.reply.value[1])
            /\ n > 1 => /\ fn_out.out.kind = "raise"
                        /\ CarriesCounts(fn_out.out.exc, n, 1)

\* a lookup that found two rows was refused
C19_Witness ==
    /\ SyncLookup(2)
    /\ fn_out.out.kind = "raise"
    /\ fn_out.out.exc = IncorrectResultSizeException(2, 1)

C19_WitnessOne ==
    /\ SyncLookup(1)
    /\ fn_out.out.kind = "return"
    /\ fn_out.out.value.tag = "instance"

C19_WitnessNone == SyncLookup(0) /\ fn_out.out.kind = "return" /\ fn_out.out.value = PyNone

\* a save whose insert was handed to the database, which answered with n rows
Saved(n) ==
    /\ EntityDone("save")
    /\ fn_out.command.verb = "insert"
    /\ fn_in.reply.kind = "return"
    /\ Len(fn_in.reply.value) = n

\* the command inserts the non-primary-key fields of the instance
InsertsNonPkFields ==
    /\ \A i \in 1..Len(fn_out.command.values) :
            LET item == fn_out.command.values[i]
            IN  /\ \A j \in 1..Len(fn_in.pk_columns) : fn_in.pk_columns[j] # item.k
                /\ item.v = fn_in.self[Get(fn_in.self, item.k)].v
    /\ \A i \in 1..Len(fn_in.self) :
            LET item == fn_in.self[i]
            IN  (/\ \A j \in 1..Len(fn_in.pk_columns) : fn_in.pk_columns[j] # item.k
                 /\ Kept(item.v))
                    => HasKey(fn_out.command.values, item.k)

\* every column value of the returned row is set on the instance
GeneratedSet(row) ==
    \A i \in 1..Len(row) :
        /\ HasKey(fn_out.self, row[i].k)
        /\ fn_out.self[Get(fn_out.self, row[i].k)].v = row[i].v

\* what the claim says of a save, whatever its mode
SaveOutcome(n) ==
    /\ InsertsNonPkFields
    /\ n = 1 => fn_out.out.kind = "return" /\ GeneratedSet(fn_in.reply.value[1])
    /\ n # 1 => /\ fn_out.out.kind = "raise"
                /\ fn_out.out.exc.type = "SaveEntityFailedException"
                /\ fn_out.self = fn_in.self

\* C20: save, in either execution mode, inserts the instance's non-primary-key
\* fields; when the insert returned exactly one row every returned column value
\* is set on the instance, and when it returned any other number of rows
\* SaveEntityFailedException is raised and no attribute of the instance changes.
C20_SaveEitherMode ==
    \A n \in 0..(MaxBatch + 1) : Saved(n) => SaveOutcome(n)

\* the same for the synchronous mode alone
C20_SaveSynchronous ==
    \A n \in 0..(MaxBatch + 1) : (Saved(n) /\ ~fn_in.async) => SaveOutcome(n)

\* an asynchronous save whose insert returns one row: len() of the future
\* raises, and the generated value is not set
C20_AsyncSaveRaises ==
    /\ Saved(1)
    /\ fn_in.async
    /\ fn_out.out.kind = "raise"
    /\ fn_out.out.exc.type = "TypeError"
    /\ ~GeneratedSet(fn_in.reply.value[1])

C20_WitnessSynchronous ==
    /\ Saved(1)
    /\ ~fn_in.async
    /\ fn_out.self # fn_in.self
    /\ GeneratedSet(fn_in.reply.value[1])

\* delete or update of an instance has issued its statement, which the
\* database refused
Refused ==
    /\ fn_pc = "done"
    /\ fn_in.fn \in {"delete", "update"}
    /\ fn_out.command.verb = fn_in.fn
    /\ fn_in.reply.kind = "raise"

\* the caller holds a future that will fail with the error of the database
DeliveredByHandle ==
    /\ fn_out.out.kind = "return"
    /\ fn_out.out.value.tag = "Future"
    /\ fn_out.out.value.outcome = fn_in.reply

\* C30: a database error raised while executing the statement issued by the
\* instance methods delete or update reaches the caller in both modes: it is
\* raised in the synchronous mode, and delivered through a handle the caller
\* receives in the asynchronous mode; it is never dropped.
C30_ErrorReachesCaller ==
    Refused => IF fn_in.async THEN DeliveredByHandle
               ELSE fn_out.out = Raise(fn_in.reply.exc)

\* the synchronous half: the error is raised to the caller
C30_SynchronousErrorRaised ==
    (Refused /\ ~fn_in.async) => fn_out.out = Raise(fn_in.reply.exc)

\* an asynchronous delete the database refused: the caller is given None
C30_AsyncErrorDropped ==
    /\ Refused
    /\ fn_in.fn = "delete"
    /\ fn_in.async
    /\ fn_out.out.kind = "return"
    /\ fn_out.out.value = PyNone

C30_AsyncUpdateErrorDropped ==
    /\ Refused
    /\ fn_in.fn = "update"
    /\ fn_in.async
    /\ fn_out.out.kind = "return"
    /\ fn_out.out.value = PyNone

-----------------------------------------------------------------------------
(* Claims about the bootstrap (SpecBoot) *)

\* the statements the claim lists, in its order
ExpectedStatements(clean) ==
    (IF clean
     THEN [i \in 1..Len(drop_order) |-> Ddl("DROP TABLE", drop_order[i])]
            \o <<Ddl("DROP SCHEMA", AppSchema)>>
     ELSE <<>>)
    \o <<Ddl("CREATE SCHEMA", AppSchema)>>
    \o [i \in 1..Len(create_order) |-> Ddl("CREATE TABLE", create_order[i])]

\* the statements issued in this run, in the order of their issue
IsIssue(event) == event.ev = "issue"
Issued == [i \in 1..Len(SelectSeq(boot.log, IsIssue)) |-> SelectSeq(boot.log, IsIssue)[i].st]

\* C22: _setup_database issues its statements in this order, each completed
\* before the next starts: with clean every table drop in drop order, then
\* the schema drop; then the schema creation, then every table creation in
\* create order; without clean no drop statement is issued.
C22_BootstrapOrder ==
    /\ IsPrefix(Issued, ExpectedStatements(boot.clean))
    /\ boot.at.pc = "done" => Issued = ExpectedStatements(boot.clean)
    /\ \A i \in 1..Len(boot.log) :
          boot.log[i].ev = "issue" =>
              /\ i > 1 => boot.log[i - 1].ev = "complete"
              /\ i < Len(boot.log) => /\ boot.log[i + 1].ev # "issue"
                                      /\ boot.log[i + 1].st = boot.log[i].st
    /\ ~boot.clean =>
          \A i \in 1..Len(boot.log) : boot.log[i].st.verb \notin {"DROP TABLE", "DROP SCHEMA"}

\* a clean bootstrap of a database that held every table ran to its end
C22_Witness ==
    /\ boot.at.pc = "done"
    /\ boot.clean
    /\ boot.before = {AppSchema, User, UserProperty, Tag}
    /\ Len(Issued) = Len(drop_order) + 2 + Len(create_order)
    /\ catalog = {AppSchema, User, UserProperty, Tag}

C22_WitnessNotClean ==
    /\ boot.at.pc = "done"
    /\ ~boot.clean
    /\ boot.runs = 1
    /\ Len(Issued) = 1 + Len(create_order)

\* the duplicate error of the server for a creation statement
IsDuplicateError(e, st) ==
    /\ e.type = "ProgrammingError"
    /\ Len(e.args) = 1
    /\ e.args[1][1] = (IF st.verb = "CREATE SCHEMA" THEN "schema " ELSE "relation ")
    /\ e.args[1][2] = st.obj
    /\ e.args[1][3] = " already exists"

IsCreate(st) == st.verb \in {"CREATE SCHEMA", "CREATE TABLE"}

\* a run of the bootstrap that ended, the k-th
Ended(k) == k \in 1..Len(boot.ends)

\* C28: create_schema and create_table are safe to re-run: the duplicate
\* error of an existing schema or table is masked, the call completes and the
\* database is unchanged, so the non-clean bootstrap run twice leaves the
\* database as one run leaves it; any other driver error of a creation propagates.
C28_CreationIsIdempotent ==
    /\ \A i \in 1..Len(boot.log) :
          LET event == boot.log[i]
          IN  (event.ev \in {"complete", "raised"} /\ IsCreate(event.st) /\ event.exc # NoExc)
                => IF IsDuplicateError(event.exc, event.st)
                   THEN event.ev = "complete"
                   ELSE /\ event.ev = "raised"
                        /\ boot.out = Raise(event.exc)
    /\ \A k \in 1..MaxRuns :
          (/\ Ended(k) /\ Ended(k + 1)
           /\ ~boot.ends[k].clean /\ ~boot.ends[k + 1].clean
           /\ boot.ends[k].out.kind = "return" /\ boot.ends[k + 1].out.kind = "return")
            => /\ boot.ends[k + 1].catalog = boot.ends[k].catalog
               /\ boot.ends[k + 1].before = boot.ends[k].catalog
    /\ \A k \in 1..MaxRuns :
          (Ended(k) /\ ~boot.ends[k].clean /\ boot.ends[k].out.kind = "return")
            => boot.ends[k].catalog = {AppSchema, User, UserProperty, Tag}

\* the second of two non-clean runs met the schema and every table, and ended
C28_Witness ==
    /\ Ended(2)
    /\ ~boot.ends[1].clean /\ ~boot.ends[2].clean
    /\ boot.ends[1].before = {}
    /\ boot.ends[1].out.kind = "return" /\ boot.ends[2].out.kind = "return"
    /\ \A i \in 1..Len(boot.log) :
          boot.log[i].ev = "complete" => IsDuplicateError(boot.log[i].exc, boot.log[i].st)
    /\ catalog = boot.ends[1].catalog

\* another error of a creation reached the caller
C28_WitnessOther ==
    /\ boot.at.pc = "failed"
    /\ boot.out.kind = "raise"
    /\ boot.out.exc.args = << <<"permission denied for ", "schema ">> >>
    /\ IsCreate(boot.log[Len(boot.log)].st)

====
